---- MODULE Spec2Model ----
(***************************************************************************)
(* Bootstrap orchestrator of the in-browser preview (src/utils/            *)
(* webcontainer.ts): one call of runFullWorkflow with the sandbox as the   *)
(* environment.  The sandbox resolves or rejects boot, mount and spawn,    *)
(* ends processes with an exit code, delivers output chunks and emits      *)
(* "server-ready" events; timers fire at any moment after being armed.     *)
(*                                                                         *)
(* Text is modelled as a sequence of tokens, so that startsWith and        *)
(* includes are computed and not assumed.                                  *)
(*                                                                         *)
(* Three specifications share the module.  Spec is one run in full detail. *)
(* CompatSpec applies checkCompatibility (src/utils/                       *)
(* compatibilityChecker.ts) to a manifest.  SessionSpec is the page over   *)
(* launches, back-navigation and Restart Server, with the module           *)
(* singletons and the runs they start going on side by side.  Each leaves  *)
(* the variables of the others as they are.                                *)
(***************************************************************************)
EXTENDS Integers, Sequences, FiniteSets, TLC

\* ------------------------------------------------------------------ bounds
\* Pending readiness grace timers armed by matching output chunks.
MaxGrace == 2
\* Dependency entries declared by one manifest (over its three sections).
MaxDeps == 1
\* Dependency entries declared by a manifest given to checkCompatibility.
MaxEntries == 2
\* Calls of checkCompatibility on one input.
MaxCalls == 2
\* Calls of runFullWorkflow in one session.
MaxRuns == 2
\* Chunks of exited install processes held in the captured text.
MaxLate == 1
\* Calls of write on one output buffer.
MaxWrites == 3
\* Directories of a static site's tree, its root apart, that carry one of
\* the names serveStaticSite looks for.
MaxStaticDirs == 2
\* Directories of a static site's tree whose probe cannot be spawned.
MaxBrokenProbes == 1
\* Calls of appendTerminalOutput.
MaxAppends == 3

\* --------------------------------------------------------------- text
NULL == "null"

\* A JSON value is a string (its text a sequence of tokens) or something else.
Str(t) == [isString |-> TRUE, text |-> t]

NonString == [isString |-> FALSE, text |-> <<>>]

StartsWith(s, p) == Len(s) >= Len(p) /\ SubSeq(s, 1, Len(p)) = p

Includes(s, t) == \E i \in 1..Len(s) : s[i] = t

\* String.prototype.trim on the script texts of the model.
Trim(t) == IF t = <<" ">> THEN <<>> ELSE t

\* ------------------------------------------------------------- inputs
\* Files at the root of the fetched repository that project detection reads.
FileNames == {"package.json", "package-lock.json", "index.html", "Cargo.toml"}

\* The root listings a run is started on.  Beside a package.json the markers
\* of the lower-ranked project types are ignored by detectProjectType and by
\* everything after it, so they come together or not at all.
RootListings ==
  { fs \in SUBSET FileNames :
      "package.json" \in fs => (("index.html" \in fs) <=> ("Cargo.toml" \in fs)) }

Sections == <<"dependencies", "devDependencies", "optionalDependencies">>

\* Version specs a dependency may declare.
DepValues ==
  { Str(<<"^1.0.0">>),
    Str(<<"git+ssh://", "git@", "github.com/x/y.git">>),
    Str(<<"ssh://", "host/x/y.git">>),
    Str(<<"https://", "git@", "host/x/y.git">>),
    NonString }

\* A dependency section is the set of its entries; a section that is
\* missing and a section that is an empty object both have no entries.
DepMaps == {{}} \cup {{[name |-> "leftpad", value |-> v]} : v \in DepValues}

ScriptMaps ==
  { {},
    {[name |-> "dev", value |-> Str(<<"vite">>)]},
    {[name |-> "watch", value |-> Str(<<"tsc -w">>)]} }

\* The manifests a run is started on; parsed = FALSE is a package.json that
\* JSON.parse rejects (readJsonFile then returns null).
Manifests ==
  { m \in [parsed : BOOLEAN, dependencies : DepMaps, devDependencies : DepMaps,
           optionalDependencies : DepMaps, scripts : ScriptMaps] :
      /\ Cardinality(m.dependencies) + Cardinality(m.devDependencies)
           + Cardinality(m.optionalDependencies) <= MaxDeps
      /\ ~m.parsed => /\ m.dependencies = {} /\ m.devDependencies = {}
                      /\ m.optionalDependencies = {} /\ m.scripts = {} }

NoManifest ==
  [parsed |-> FALSE, dependencies |-> {}, devDependencies |-> {},
   optionalDependencies |-> {}, scripts |-> {}]

\* URLs the sandbox reports with its server-ready event.
Urls ==
  { <<"http://localhost", ":5173">>,
    <<"http://127.0.0.1", ":5173">>,
    <<"https://", "k03e2io1v3fx9wvj--5173.webcontainer.io">> }

StaticFallbackUrl == <<"http://localhost", ":3000">>

\* Exit codes a process may end with.
ExitCodes == {0, 1, 2}

\* Signatures an install process may print.
OutputTokens == {"ERESOLVE", "gyp ERR!"}

\* A thrown value: an Error with its message and the fragments of it that
\* runFullWorkflow searches for, or a value that is no Error.
Exc(msg, frags) == [isError |-> TRUE, message |-> msg, has |-> frags]

NotAnError == [isError |-> FALSE, message |-> "", has |-> {}]

\* What an attempt of WebContainer.boot may fail with.
BootFailures ==
  { Exc("Boot timed out", {"timed out"}),
    Exc("SharedArrayBuffer is not defined", {"SharedArrayBuffer"}) }

\* What mountFiles may reject with: its own timeout, or container.mount.
MountFailures ==
  { Exc("Mounting files timed out after 60s. The repository may be too large.",
        {"Mount", "timed out"}),
    Exc("mount failed", {}) }

\* What container.spawn of an install attempt may reject with.
InstallFailures ==
  { Exc("spawn failed", {}),
    NotAnError }

SpawnFailures == { Exc("spawn failed", {}) }

\* ---------------------------------------------------------- pure helpers
detectProjectType(fs) ==
  IF "package.json" \in fs THEN "nodejs"
  ELSE IF "Cargo.toml" \in fs THEN "rust"
  ELSE IF "index.html" \in fs THEN "static"
  ELSE "other"

\* Variant: every project type is taken for a runnable one.
IsRunnable_All(t) == TRUE

IsRunnable(t) == t = "nodejs" \/ t = "static"

\* The first branch of checkCompatibility: the declared type alone.
checkCompatibilityType(t) ==
  IF t # "nodejs"
    THEN IF t = "static"
           THEN [canRun |-> TRUE, issues |-> <<>>]
           ELSE [canRun |-> FALSE,
                 issues |-> << <<t, " projects cannot run in WebContainers">> >>]
    ELSE [canRun |-> TRUE, issues |-> <<>>]

IsGitSshValue(v) ==
  /\ v.isString
  /\ \/ StartsWith(v.text, <<"git+ssh://">>)
     \/ StartsWith(v.text, <<"ssh://">>)
     \/ Includes(v.text, "git@")

\* Variant: only the "dependencies" section is scanned.
hasGitSshDependencies_FirstSectionOnly(p) ==
  \E e \in p[Sections[1]] : IsGitSshValue(e.value)

hasGitSshDependencies(p) ==
  \E i \in 1..Len(Sections) : \E e \in p[Sections[i]] : IsGitSshValue(e.value)

\* Variant: the 127.0.0.1 prefix is not rejected.
IsLoopback_LocalhostOnly(url) == StartsWith(url, <<"http://localhost">>)

IsLoopback(url) ==
  StartsWith(url, <<"http://localhost">>) \/ StartsWith(url, <<"http://127.0.0.1">>)

\* A chunk of install output: the ladder step whose process printed it and
\* the signature it carries.
Chunk(j, tok) == [from |-> j, tok |-> tok]

hasPeerDepError(out) == \E c \in out : c.tok = "ERESOLVE"

hasPostInstallError(out) == \E c \in out : c.tok = "gyp ERR!"

DevScripts == <<"dev", "start", "serve", "develop", "watch">>

ScriptUsable(s, n) ==
  \E e \in s : e.name = n /\ e.value.isString /\ Len(Trim(e.value.text)) > 0

RECURSIVE FirstUsable(_, _)
FirstUsable(s, i) ==
  IF i > Len(DevScripts) THEN NULL
  ELSE IF ScriptUsable(s, DevScripts[i]) THEN DevScripts[i]
  ELSE FirstUsable(s, i + 1)

\* Variant: a script is always found.
findDevScript_AlwaysDev(p) == "dev"

findDevScript(p) == IF ~p.parsed THEN NULL ELSE FirstUsable(p.scripts, 1)

\* ---------------------------------------------------------------- state
VARIABLES
  files,                \* root files of the fetched repository
  pkg,                  \* package.json as the sandbox filesystem holds it
  projectType,          \* projectInfo.type handed to runFullWorkflow
  pc,                   \* where runFullWorkflow / its callee is suspended
  webcontainerInstance, \* module singleton
  statusLog,            \* statuses given to onStatusChange, in order
  errorLog,             \* messages given to onError, in order
  readyUrls,            \* URLs given to onServerReady, in order
  compatibilityLog,     \* reports given to onCompatibilityCheck, in order
  hints,                \* advisory texts given to onOutput
  phaseLog,             \* sandbox operations of the run, in order
  serverReadyFired,     \* the readiness latch of the run
  listening,            \* container.on("server-ready") is registered
  serverReadyTimeout,   \* "none", "pending", "fired" or "cleared"
  grace,                \* pending grace timers armed by output chunks
  serverProc,           \* "none", "alive" or "exited"
  installStep,          \* ladder step of the last install attempt, 0 before
  installExitCode,      \* local of startDevServer, -1 before any exit
  installOutput,        \* local of startDevServer: chunks captured
  signatureSeen,        \* some install attempt of the run printed a signature
  lastExit,             \* exit code of the latest install process, -1 before
  timeoutTimer,         \* timeoutTimer of runCommandWithTimeout: "none", "pending"
  manifest,             \* package.json of the tree given to checkCompatibility
  checkedType,          \* project type given to checkCompatibility
  report,               \* what the latest call of checkCompatibility returned
  calls,                \* calls of checkCompatibility made so far
  fwPkg,                \* package.json given to the framework detectors
  frameworkDetected,    \* what detectFramework returned, NULL for undefined
  frameworkConfig,      \* what detectFrameworkConfig returned
  applied,              \* which of the two detectors were applied
  bootCalls,            \* how each call of bootWebContainer began, in order
  attempt,              \* attempt number of the pending attemptBoot, 0 if none
  attemptLog,           \* boot attempts made, in order, with their outcome
  callers,              \* per call of bootWebContainer: the boot awaited, the result
  view,                 \* "landing" or "workspace"
  containerStatus,      \* store field written by onStatusChange
  bootPromise,          \* module singleton: 0, or the boot it is the promise of
  boots,                \* boots begun in the session, in order
  runs,                 \* calls of runFullWorkflow made in the session, in order
  shellProcess,         \* module singletons of the shell: NULL, or its sandbox
  shellStarted,         \* shellStartedRef of the Terminal component
  tornDown,             \* sandboxes whose teardown() was called
  staleCallbacks,       \* kinds of callbacks delivered by a torn-down run
  shells,               \* per sandbox: "none", or its shell "alive" or "exited"
  buffer,               \* createBufferedOutput: text not yet forwarded
  timer,                \* createBufferedOutput: 0 for null, or the timeout's id
  timeouts,             \* ids of the setTimeout callbacks still pending
  sinkLog,              \* chunks given to onOutput by the buffer, in order
  writeLog,             \* chunks given to write, in order
  lastCall,             \* "none", "write", "flush" or "timer"
  tree,                 \* static site: the directories of the mounted tree
  staticPc,             \* where serveStaticSite is: "probe", "root", "write", "install"
  existingDirs,         \* local of serveStaticSite
  staticRoot,           \* local of serveStaticSite, NULL before findStaticRoot
  uniqueDirs,           \* the list generateStaticServerScript was given
  serverManifest,       \* dependencies of the package.json written, NULL before
  terminalOutput,       \* store field: the text of the workflow log
  lastOutputRef,        \* Terminal: the text it believes it has written
  xterm,                \* what the terminal view was given since its last clear
  rendered,             \* terminalOutput as the last render of Terminal saw it
  appends               \* calls of appendTerminalOutput made so far

vars ==
  <<files, pkg, projectType, pc, webcontainerInstance, statusLog, errorLog,
    readyUrls, compatibilityLog, hints, phaseLog, serverReadyFired, listening,
    serverReadyTimeout, grace, serverProc, installStep, installExitCode,
    installOutput, signatureSeen, lastExit, timeoutTimer, manifest,
    checkedType, report,
    calls, fwPkg, frameworkDetected, frameworkConfig, applied, bootCalls,
    attempt, attemptLog, callers, view, containerStatus, bootPromise, boots, runs, shellProcess,
    shellStarted, tornDown, staleCallbacks, shells, buffer, timer, timeouts, sinkLog,
    writeLog, lastCall, tree, staticPc, existingDirs, staticRoot, uniqueDirs,
    serverManifest, terminalOutput, lastOutputRef, xterm, rendered, appends>>

\* State of the specification of the Terminal component.
terminalVars == <<terminalOutput, lastOutputRef, xterm, rendered, appends>>

\* State of the specification of the static-site set-up.
staticVars ==
  <<tree, staticPc, existingDirs, staticRoot, uniqueDirs, serverManifest>>

\* State of the specification of createBufferedOutput.
bufferVars == <<buffer, timer, timeouts, sinkLog, writeLog, lastCall>>

\* State of the specifications of the helpers checked on their own.
unitVars == <<bufferVars, staticVars, terminalVars>>

\* State of the framework detectors' specification.
frameworkVars == <<fwPkg, frameworkDetected, frameworkConfig, applied>>

\* State of the specification of bootWebContainer, the singletons apart.
bootVars == <<bootCalls, attempt, attemptLog, callers>>

\* State of the specifications of single functions.
compatVars == <<manifest, checkedType, report, calls, frameworkVars, bootVars>>

\* State of the session specification, webcontainerInstance apart.
sessionVars ==
  <<view, containerStatus, bootPromise, boots, runs, shellProcess,
    shellStarted, tornDown, staleCallbacks, shells>>

\* What a run never writes: its inputs, the onCompatibilityCheck callback
\* (no statement of the module calls it), and the state of the other
\* specifications.
inputVars ==
  <<files, pkg, projectType, compatibilityLog, compatVars, sessionVars,
    unitVars>>

installVars ==
  <<installStep, installExitCode, installOutput, signatureSeen, lastExit,
    timeoutTimer>>

\* State of a single run, webcontainerInstance apart.
runLocalVars ==
  <<files, pkg, projectType, pc, statusLog, errorLog, readyUrls,
    compatibilityLog, hints,
    phaseLog, serverReadyFired, listening, serverReadyTimeout, grace,
    serverProc, installStep, installExitCode, installOutput, signatureSeen,
    lastExit, timeoutTimer, unitVars>>

serverVars == <<serverReadyFired, listening, serverReadyTimeout, grace, serverProc>>

Ev(e, a) == [ev |-> e, arg |-> a]

CodeStr(c) == IF c = 0 THEN "0" ELSE "1"

InstallCmd ==
  << "npm ci", "npm install", "npm install --legacy-peer-deps",
     "npm install --force", "npm install --ignore-scripts --legacy-peer-deps" >>

\* The result of detectFrameworkConfig(null).
DefaultConfig == [name |-> NULL, args |-> <<"run", "dev">>, env |-> {}]

\* No detector was applied.
FrameworkIdle ==
  /\ fwPkg = [parsed |-> FALSE, dependencies |-> {}, devDependencies |-> {},
              optionalDependencies |-> {}, scripts |-> {}]
  /\ frameworkDetected = NULL
  /\ frameworkConfig = DefaultConfig
  /\ applied = {}

\* bootWebContainer was not called.
BootIdle ==
  /\ bootCalls = <<>>
  /\ attempt = 0
  /\ attemptLog = <<>>
  /\ callers = <<>>

\* No call of checkCompatibility is being looked at.
CompatIdle ==
  /\ manifest = NoManifest
  /\ checkedType = "other"
  /\ report = [threw |-> FALSE, canRun |-> TRUE, hasGitSshDeps |-> FALSE,
               issues |-> <<>>, warnings |-> <<>>, suggestions |-> <<>>]
  /\ calls = 0
  /\ FrameworkIdle
  /\ BootIdle

\* The page is on its landing view and nothing was started.
\* The sandboxes the boots of a session resolve to.
Sandboxes == {"wc1", "wc2", "wc3", "wc4"}

SessionIdle ==
  /\ view = "landing"
  /\ containerStatus = "idle"
  /\ bootPromise = 0
  /\ boots = <<>>
  /\ runs = <<>>
  /\ shellProcess = NULL
  /\ shellStarted = FALSE
  /\ tornDown = {}
  /\ staleCallbacks = {}
  /\ shells = [s \in Sandboxes |-> "none"]

\* No call of runFullWorkflow was made.
\* A buffer as createBufferedOutput returns it.
BufferIdle ==
  /\ buffer = <<>>
  /\ timer = 0
  /\ timeouts = {}
  /\ sinkLog = <<>>
  /\ writeLog = <<>>
  /\ lastCall = "none"

\* serveStaticSite was not called.
StaticIdle ==
  /\ tree = [dirs |-> {}, indexed |-> {}, broken |-> {}]
  /\ staticPc = "probe"
  /\ existingDirs = <<>>
  /\ staticRoot = NULL
  /\ uniqueDirs = <<>>
  /\ serverManifest = NULL

\* The Terminal component is mounted on an empty log.
TerminalIdle ==
  /\ terminalOutput = <<>>
  /\ lastOutputRef = <<>>
  /\ xterm = <<>>
  /\ rendered = <<>>
  /\ appends = 0

UnitIdle == BufferIdle /\ StaticIdle /\ TerminalIdle

\* No run was started.
RunLocalsIdle ==
  /\ pc = "idle"
  /\ statusLog = <<>>
  /\ errorLog = <<>>
  /\ readyUrls = <<>>
  /\ compatibilityLog = <<>>
  /\ hints = {}
  /\ phaseLog = <<>>
  /\ serverReadyFired = FALSE
  /\ listening = FALSE
  /\ serverReadyTimeout = "none"
  /\ grace = 0
  /\ serverProc = "none"
  /\ installStep = 0
  /\ installExitCode = -1
  /\ installOutput = {}
  /\ signatureSeen = FALSE
  /\ lastExit = -1
  /\ timeoutTimer = "none"

RunIdle == RunLocalsIdle /\ UnitIdle

Init ==
  /\ CompatIdle
  /\ SessionIdle
  /\ files \in RootListings
  /\ pkg \in Manifests
  /\ ("package.json" \notin files) => pkg = NoManifest
  /\ projectType = detectProjectType(files)
  /\ webcontainerInstance = NULL
  /\ RunIdle

\* ------------------------------------------------------- runFullWorkflow
\* Entry up to the first await (bootWebContainer), on either branch.
RunFullWorkflow ==
  /\ pc = "idle"
  /\ statusLog' = Append(statusLog, "booting")
  /\ phaseLog' = Append(phaseLog, Ev("boot.start", ""))
  /\ pc' = "boot"
  /\ UNCHANGED <<inputVars, webcontainerInstance, errorLog, readyUrls, hints,
                 serverVars, installVars>>

\* error instanceof Error ? error.message : "Unknown error occurred"
messageOf(e) == IF e.isError THEN e.message ELSE "Unknown error occurred"

\* The error bootWebContainer throws when its attempts are used up, whatever
\* the last attempt failed with.
BootError ==
  Exc("Boot timed out. Please reload or check if your browser supports WebContainers (Chrome/Edge required).",
      {"timed out"})

\* Variant: the message of the exception is passed on as it is.
friendlyMessage_Raw(e) == messageOf(e)

\* The message the catch block of runFullWorkflow hands to onError for a
\* runnable project.
friendlyMessage(e) ==
  LET has(f) == e.isError /\ f \in e.has IN
  IF has("SharedArrayBuffer")
    THEN "WebContainers require Cross-Origin-Isolation headers. Please ensure the server is configured correctly."
  ELSE IF has("boot")
    THEN "Failed to boot WebContainer. This feature requires a modern browser with WebAssembly support."
  ELSE IF has("timed out") /\ has("Mount")
    THEN "Mounting files timed out. Try a smaller repository or check your connection."
  ELSE messageOf(e)

\* The message of the catch block that boot and mount failures reach: the
\* browse-only branch hands the message on, the runnable branch rewrites it.
workflowMessage(e) ==
  IF IsRunnable(projectType) THEN friendlyMessage(e) ELSE messageOf(e)

\* The catch block of startDevServer / serveStaticSite / runFullWorkflow.
Catch(msg) ==
  /\ serverReadyTimeout' =
       IF serverReadyTimeout = "pending" THEN "cleared" ELSE serverReadyTimeout
  /\ errorLog' = Append(errorLog, msg)
  /\ statusLog' = Append(statusLog, "error")
  /\ pc' = "returned"

\* bootWebContainer resolves: mounting begins.
BootResolve ==
  /\ pc = "boot"
  /\ webcontainerInstance' = "wc"
  /\ statusLog' = Append(statusLog, "mounting")
  /\ phaseLog' = phaseLog \o <<Ev("boot.done", ""), Ev("mount.start", "")>>
  /\ pc' = "mount"
  /\ UNCHANGED <<inputVars, errorLog, readyUrls, hints, serverVars, installVars>>

\* The last boot attempt fails with e: bootWebContainer throws BootError
\* into the catch block of runFullWorkflow.
BootReject(e) ==
  /\ pc = "boot"
  /\ phaseLog' = Append(phaseLog, Ev("boot.fail", e.message))
  /\ Catch(workflowMessage(BootError))
  /\ UNCHANGED <<inputVars, webcontainerInstance, readyUrls, hints,
                 serverReadyFired, listening, grace, serverProc, installVars>>

\* mountFiles rejects with e.
MountReject(e) ==
  /\ pc = "mount"
  /\ phaseLog' = Append(phaseLog, Ev("mount.fail", e.message))
  /\ Catch(workflowMessage(e))
  /\ UNCHANGED <<inputVars, webcontainerInstance, readyUrls, hints,
                 serverReadyFired, listening, grace, serverProc, installVars>>

\* mountFiles resolves.  A project that is not runnable is shown for code
\* browsing; a static project enters serveStaticSite; a Node.js project
\* enters startDevServer, which registers its server-ready listener before
\* its first await.
MountResolve ==
  /\ pc = "mount"
  /\ phaseLog' = Append(phaseLog, Ev("mount.done", ""))
  /\ IF ~IsRunnable(projectType)
       THEN /\ statusLog' = Append(statusLog, "ready")
            /\ pc' = "returned"
            /\ UNCHANGED listening
       ELSE IF projectType = "static"
         THEN /\ pc' = "static.probe"
              /\ UNCHANGED <<statusLog, listening>>
         ELSE /\ pc' = "node.preflight"
              /\ listening' = TRUE
              /\ UNCHANGED statusLog
  /\ UNCHANGED <<inputVars, webcontainerInstance, errorLog, readyUrls, hints,
                 serverReadyFired, serverReadyTimeout, grace, serverProc,
                 installVars>>

\* ------------------------------------------------- startDevServer: install
hasPackageLock == "package-lock.json" \in files

\* Variant: the plain install runs whatever the previous exit code was.
StepCond_AlwaysInstall(j, code, out) ==
  CASE j = 1 -> hasPackageLock
    [] j = 2 -> TRUE
    [] j = 3 -> code # 0 /\ hasPeerDepError(out)
    [] j = 4 -> code # 0
    [] j = 5 -> code # 0 /\ hasPostInstallError(out)

\* Variant: the forced install needs a peer-conflict signature as well.
StepCond_ForceNeedsSignature(j, code, out) ==
  CASE j = 1 -> hasPackageLock
    [] j = 2 -> code # 0
    [] j = 3 -> code # 0 /\ hasPeerDepError(out)
    [] j = 4 -> code # 0 /\ hasPeerDepError(out)
    [] j = 5 -> code # 0 /\ hasPostInstallError(out)

\* The guard of ladder step j, as the if-chain of startDevServer states it.
StepCond(j, code, out) ==
  CASE j = 1 -> hasPackageLock
    [] j = 2 -> code # 0
    [] j = 3 -> code # 0 /\ hasPeerDepError(out)
    [] j = 4 -> code # 0
    [] j = 5 -> code # 0 /\ hasPostInstallError(out)

\* The first ladder step at or after j whose guard holds, 6 if none does.
RECURSIVE NextStep(_, _, _)
NextStep(j, code, out) ==
  IF j > 5 THEN 6
  ELSE IF StepCond(j, code, out) THEN j
  ELSE NextStep(j + 1, code, out)

\* Variant: the message always reports exit code 1.
InstallFailedMessage_AlwaysOne(code) ==
  "Dependency install failed (exit code 1). Check terminal for details."

InstallFailedMessage(code) ==
  IF code = 1
    THEN "Dependency install failed (exit code 1). Check terminal for details."
    ELSE "Dependency install failed (exit code 2). Check terminal for details."

\* Variant: the exit code of the ladder is not looked at.
InstallFailed_Never(code) == FALSE

InstallFailed(code) == code # 0

\* Steps 2, 3 and 4 discard the captured text before they run.
ResetsOutput(j) == j \in {2, 3, 4}

\* Steps 1 to 4 capture their output; step 5 only prints it.
CapturesOutput(j) == j \in 1..4

\* Runs the if-chain from step j on: spawns the next attempt, or leaves the
\* ladder with the last exit code.
Ladder(j, code, log) ==
  LET n == NextStep(j, code, installOutput) IN
  IF n <= 5
    THEN /\ installStep' = n
         /\ timeoutTimer' = "pending"
         /\ installOutput' = IF ResetsOutput(n) THEN {} ELSE installOutput
         /\ phaseLog' = Append(log, Ev("install.spawn", InstallCmd[n]))
         /\ pc' = "node.install"
         /\ UNCHANGED <<errorLog, statusLog>>
    ELSE /\ phaseLog' = log
         /\ installOutput' = {}
         /\ timeoutTimer' = "none"
         /\ UNCHANGED installStep
         /\ IF InstallFailed(code)
              THEN /\ errorLog' = Append(errorLog, InstallFailedMessage(code))
                   /\ statusLog' = Append(statusLog, "error")
                   /\ pc' = "returned"
              ELSE /\ pc' = "node.findScript"
                   /\ UNCHANGED <<errorLog, statusLog>>

\* readJsonFile resolves: the git+ssh gate, then the first ladder step.
Preflight ==
  /\ pc = "node.preflight"
  /\ IF pkg.parsed /\ hasGitSshDependencies(pkg)
       THEN /\ statusLog' = Append(statusLog, "error")
            /\ errorLog' = Append(errorLog, "This project uses git+ssh dependencies")
            /\ pc' = "returned"
            /\ UNCHANGED <<phaseLog, installVars>>
       ELSE LET n == NextStep(1, -1, {}) IN
            /\ statusLog' = Append(statusLog, "installing")
            /\ installStep' = n
            /\ timeoutTimer' = "pending"
            /\ installOutput' = {}
            /\ phaseLog' = Append(phaseLog, Ev("install.spawn", InstallCmd[n]))
            /\ pc' = "node.install"
            /\ UNCHANGED <<errorLog, installExitCode, signatureSeen, lastExit>>
  /\ UNCHANGED <<inputVars, webcontainerInstance, readyUrls, hints, serverVars>>

\* The running install process prints a chunk carrying signature tok.
InstallOutput(tok) ==
  /\ pc = "node.install"
  /\ installOutput' = IF CapturesOutput(installStep)
                        THEN installOutput \cup {Chunk(installStep, tok)}
                        ELSE installOutput
  /\ signatureSeen' = TRUE
  /\ UNCHANGED <<inputVars, pc, webcontainerInstance, statusLog, errorLog,
                 readyUrls, hints, phaseLog, serverVars, installStep,
                 installExitCode, lastExit, timeoutTimer>>

\* The ladder steps whose process has exited.
ExitedSteps ==
  {j \in 1..5 : j < installStep /\ Ev("install.spawn", InstallCmd[j]) \in
                                    {phaseLog[i] : i \in 1..Len(phaseLog)}}

\* The output stream of the attempt that exited last delivers one more chunk
\* while a later attempt runs: its pipe is never closed and its sink is
\* still captureOutput.  (A chunk of a still earlier attempt is captured in
\* the same way.)
LateInstallOutput(tok) ==
  /\ pc = "node.install"
  /\ ExitedSteps # {}
  /\ Cardinality({c \in installOutput : c.from # installStep}) < MaxLate
  /\ LET j == CHOOSE k \in ExitedSteps : \A l \in ExitedSteps : l <= k IN
     installOutput' = IF CapturesOutput(j)
                        THEN installOutput \cup {Chunk(j, tok)}
                        ELSE installOutput
  /\ signatureSeen' = TRUE
  /\ UNCHANGED <<inputVars, pc, webcontainerInstance, statusLog, errorLog,
                 readyUrls, hints, phaseLog, serverVars, installStep,
                 installExitCode, lastExit, timeoutTimer>>

\* proc.exit resolves before the attempt's timeout.
InstallExit(code) ==
  /\ pc = "node.install"
  /\ installExitCode' = code
  /\ lastExit' = code
  /\ Ladder(installStep + 1, code,
            Append(phaseLog, Ev("install.exit", CodeStr(code))))
  /\ UNCHANGED <<signatureSeen, inputVars, webcontainerInstance, readyUrls, hints, serverVars>>

\* Variant: the message does not carry the label of the attempt.
TimeoutMessage_NoLabel(j) == "install timed out after 300s"

\* `${label} timed out after ${Math.round(timeoutMs / 1000)}s`
TimeoutMessage(j) ==
  CASE j = 1 -> "npm ci timed out after 300s"
    [] j = 2 -> "npm install timed out after 300s"
    [] j = 3 -> "npm install --legacy-peer-deps timed out after 300s"
    [] j = 4 -> "npm install --force timed out after 300s"
    [] j = 5 -> "npm install --ignore-scripts timed out after 300s"

\* timeoutTimer fires before proc.exit resolves: the process is killed and
\* runCommandWithTimeout throws into the catch block of startDevServer.
InstallTimeout ==
  /\ pc = "node.install"
  /\ timeoutTimer = "pending"
  /\ timeoutTimer' = "none"
  /\ phaseLog' = phaseLog \o << Ev("install.timeout", InstallCmd[installStep]),
                                 Ev("install.kill", InstallCmd[installStep]),
                                 Ev("install.abort", TimeoutMessage(installStep)) >>
  /\ Catch(TimeoutMessage(installStep))
  /\ installOutput' = {}
  /\ UNCHANGED <<inputVars, webcontainerInstance, readyUrls, hints,
                 serverReadyFired, listening, grace, serverProc, installStep,
                 installExitCode, signatureSeen, lastExit>>

\* container.spawn of the attempt rejects: runCommandWithTimeout throws into
\* the catch block.
InstallThrow(e) ==
  /\ pc = "node.install"
  /\ phaseLog' = Append(phaseLog, Ev("install.abort", e.message))
  /\ Catch(messageOf(e))
  /\ installOutput' = {}
  /\ timeoutTimer' = "none"
  /\ UNCHANGED <<inputVars, webcontainerInstance, readyUrls, hints,
                 serverReadyFired, listening, grace, serverProc, installStep,
                 installExitCode, signatureSeen, lastExit>>

\* ------------------------------------------- startDevServer: dev server
\* The script name detectFrameworkConfig puts into "npm run <script>".
ConfigScripts == <<"dev", "start", "serve", "develop">>

ScriptTruthy(sc, n) ==
  \E e \in sc : e.name = n /\ (~e.value.isString \/ Len(e.value.text) > 0)

RECURSIVE FirstTruthy(_, _)
FirstTruthy(sc, i) ==
  IF i > Len(ConfigScripts) THEN "dev"
  ELSE IF ScriptTruthy(sc, ConfigScripts[i]) THEN ConfigScripts[i]
  ELSE FirstTruthy(sc, i + 1)

baseScript(p) == IF ~p.parsed THEN "dev" ELSE FirstTruthy(p.scripts, 1)

\* findDevScript resolves: no script is an error, otherwise the dev server
\* is spawned.
FindScript ==
  /\ pc = "node.findScript"
  /\ IF findDevScript(pkg) = NULL
       THEN /\ errorLog' = Append(errorLog, "No dev/start script found in package.json")
            /\ statusLog' = Append(statusLog, "error")
            /\ pc' = "returned"
            /\ UNCHANGED phaseLog
       ELSE /\ statusLog' = Append(statusLog, "running")
            /\ phaseLog' = Append(phaseLog, Ev("server.spawn", baseScript(pkg)))
            /\ pc' = "node.spawn"
            /\ UNCHANGED errorLog
  /\ UNCHANGED <<inputVars, webcontainerInstance, readyUrls, hints, serverVars,
                 installVars>>

\* container.spawn of the server resolves: output is piped, the readiness
\* timeout is armed and the exit handler attached.  On the static path the
\* server-ready listener is registered only here.
ServerSpawnResolve ==
  /\ pc \in {"node.spawn", "static.spawn"}
  /\ serverProc' = "alive"
  /\ serverReadyTimeout' = "pending"
  /\ listening' = TRUE
  /\ pc' = "returned"
  /\ UNCHANGED <<inputVars, webcontainerInstance, statusLog, errorLog,
                 readyUrls, hints, phaseLog, serverReadyFired, grace,
                 installVars>>

\* container.spawn of the server rejects with e.
ServerSpawnReject(e) ==
  /\ pc \in {"node.spawn", "static.spawn"}
  /\ phaseLog' = Append(phaseLog, Ev("spawn.fail", e.message))
  /\ Catch(messageOf(e))
  /\ UNCHANGED <<inputVars, webcontainerInstance, readyUrls, hints,
                 serverReadyFired, listening, grace, serverProc, installVars>>

\* ------------------------------------------------------- readiness latch
\* Variant: the latch is never found closed.
LatchClosed_Never == FALSE

LatchClosed == serverReadyFired

\* The body of handleServerReady once the latch is taken.
FireLatch(url) ==
  /\ serverReadyFired' = TRUE
  /\ serverReadyTimeout' =
       IF serverReadyTimeout = "pending" THEN "cleared" ELSE serverReadyTimeout
  /\ readyUrls' = Append(readyUrls, url)
  /\ statusLog' = Append(statusLog, "ready")
  /\ UNCHANGED hints

\* handleServerReady of startDevServer.
handleServerReadyNode(url) ==
  IF LatchClosed
    THEN UNCHANGED <<serverReadyFired, serverReadyTimeout, readyUrls, statusLog, hints>>
    ELSE IF IsLoopback(url)
      THEN /\ hints' = hints \cup {"localhost"}
           /\ UNCHANGED <<serverReadyFired, serverReadyTimeout, readyUrls, statusLog>>
      ELSE FireLatch(url)

\* handleServerReady of serveStaticSite.
handleServerReadyStatic(url) ==
  IF LatchClosed
    THEN UNCHANGED <<serverReadyFired, serverReadyTimeout, readyUrls, statusLog, hints>>
    ELSE FireLatch(url)

handleServerReady(url) ==
  IF projectType = "static" THEN handleServerReadyStatic(url)
  ELSE handleServerReadyNode(url)

\* A process of the run has been spawned, so a port may be announced; the
\* announcement is delivered asynchronously, possibly after the exit.
PortMayOpen == pc \in {"node.install", "node.findScript", "node.spawn"} \/ serverProc # "none"

\* The sandbox emits "server-ready" with url.
ServerReadyEvent(url) ==
  /\ listening
  /\ PortMayOpen
  /\ handleServerReady(url)
  /\ UNCHANGED <<inputVars, pc, webcontainerInstance, errorLog, phaseLog,
                 listening, grace, serverProc, installVars>>

\* The server prints a chunk; matches tells whether a readiness pattern
\* matches it.  A matching chunk arms a grace timer while the latch is open.
ServerOutput(matches) ==
  /\ serverProc = "alive"
  /\ grace < MaxGrace
  /\ grace' = IF ~serverReadyFired /\ matches THEN grace + 1 ELSE grace
  /\ UNCHANGED <<inputVars, pc, webcontainerInstance, statusLog, errorLog,
                 readyUrls, hints, phaseLog, serverReadyFired, listening,
                 serverReadyTimeout, serverProc, installVars>>

\* A grace timer expires: 2 s hint on the Node.js path, 500 ms fallback to
\* the loopback URL on the static path.
GraceTimerFire ==
  /\ grace > 0
  /\ grace' = grace - 1
  /\ IF serverReadyFired
       THEN UNCHANGED <<serverReadyFired, serverReadyTimeout, readyUrls, statusLog, hints>>
       ELSE IF projectType = "static"
         THEN handleServerReadyStatic(StaticFallbackUrl)
         ELSE /\ hints' = hints \cup {"appears ready"}
              /\ UNCHANGED <<serverReadyFired, serverReadyTimeout, readyUrls, statusLog>>
  /\ UNCHANGED <<inputVars, pc, webcontainerInstance, errorLog, phaseLog,
                 listening, serverProc, installVars>>

\* Variant: the timeout prints its hints whatever the latch says.
TimeoutHints_IgnoreLatch == hints \cup {"taking longer"}

\* What the readiness timeout leaves on the output sink.
TimeoutHints == IF serverReadyFired THEN hints ELSE hints \cup {"taking longer"}

\* The readiness timeout (45 s, 30 s on the static path) expires.
ReadyTimeoutFire ==
  /\ serverReadyTimeout = "pending"
  /\ serverReadyTimeout' = "fired"
  /\ hints' = TimeoutHints
  /\ UNCHANGED <<inputVars, pc, webcontainerInstance, statusLog, errorLog,
                 readyUrls, phaseLog, serverReadyFired, listening, grace,
                 serverProc, installVars>>

\* Variant: the exit handler does not look at the latch.
ExitIsError_IgnoreLatch(code) == code # 0

\* The condition of the exit handler of the server process.
ExitIsError(code) == code # 0 /\ ~serverReadyFired

\* serverProcess.exit resolves with code.
ServerExit(code) ==
  /\ serverProc = "alive"
  /\ serverProc' = "exited"
  /\ serverReadyTimeout' =
       IF serverReadyTimeout = "pending" THEN "cleared" ELSE serverReadyTimeout
  /\ phaseLog' = Append(phaseLog, Ev("server.exit", CodeStr(code)))
  /\ IF ExitIsError(code)
       THEN /\ errorLog' = Append(errorLog, "server exited")
            /\ statusLog' = Append(statusLog, "error")
       ELSE UNCHANGED <<errorLog, statusLog>>
  /\ UNCHANGED <<inputVars, pc, webcontainerInstance, readyUrls, hints,
                 serverReadyFired, listening, grace, installVars>>

\* ------------------------------------------------------- serveStaticSite
\* The directory probes resolve; installing is announced, the server files
\* are written and the single install is spawned (runCommand, no timeout).
StaticSetup ==
  /\ pc = "static.probe"
  /\ statusLog' = Append(statusLog, "installing")
  /\ installStep' = 2
  /\ phaseLog' = Append(phaseLog, Ev("install.spawn", InstallCmd[2]))
  /\ pc' = "static.install"
  /\ UNCHANGED <<inputVars, webcontainerInstance, errorLog, readyUrls, hints,
                 serverVars, installExitCode, installOutput, signatureSeen,
                 lastExit, timeoutTimer>>

\* writeFile or spawn rejects after installing was announced.
StaticSetupReject ==
  /\ pc = "static.probe"
  /\ errorLog' = Append(errorLog, "write failed")
  /\ statusLog' = statusLog \o <<"installing", "error">>
  /\ pc' = "returned"
  /\ UNCHANGED <<inputVars, webcontainerInstance, readyUrls, hints, phaseLog,
                 serverVars, installVars>>

StaticInstallExit(code) ==
  /\ pc = "static.install"
  /\ installExitCode' = code
  /\ lastExit' = code
  /\ IF InstallFailed(code)
       THEN /\ errorLog' = Append(errorLog, "Failed to install static server dependencies")
            /\ statusLog' = Append(statusLog, "error")
            /\ phaseLog' = Append(phaseLog, Ev("install.exit", CodeStr(code)))
            /\ pc' = "returned"
       ELSE /\ statusLog' = Append(statusLog, "running")
            /\ phaseLog' = phaseLog \o <<Ev("install.exit", CodeStr(code)),
                                        Ev("server.spawn", "start")>>
            /\ pc' = "static.spawn"
            /\ UNCHANGED errorLog
  /\ UNCHANGED <<inputVars, webcontainerInstance, readyUrls, hints, serverVars,
                 installStep, installOutput, signatureSeen, timeoutTimer>>

\* ------------------------------------------------------------------ spec
Next ==
  \/ RunFullWorkflow
  \/ BootResolve
  \/ \E e \in BootFailures : BootReject(e)
  \/ MountResolve
  \/ \E e \in MountFailures : MountReject(e)
  \/ Preflight
  \/ \E tok \in OutputTokens : InstallOutput(tok)
  \/ \E tok \in OutputTokens : LateInstallOutput(tok)
  \/ \E code \in ExitCodes : InstallExit(code)
  \/ InstallTimeout
  \/ \E e \in InstallFailures : InstallThrow(e)
  \/ FindScript
  \/ ServerSpawnResolve
  \/ \E e \in SpawnFailures : ServerSpawnReject(e)
  \/ \E url \in Urls : ServerReadyEvent(url)
  \/ \E m \in BOOLEAN : ServerOutput(m)
  \/ GraceTimerFire
  \/ ReadyTimeoutFire
  \/ \E code \in ExitCodes : ServerExit(code)
  \/ StaticSetup
  \/ StaticSetupReject
  \/ \E code \in ExitCodes : StaticInstallExit(code)

Spec == Init /\ [][Next]_vars


\* ------------------------------------------------------ checkCompatibility
DepNames == <<"leftpad", "private-lib">>

\* Version specs of the manifests given to the checker.
CheckedValues == DepValues \cup { Str(<<"svn+", "ssh://", "host/x/y">>) }

CheckedDepMaps ==
  { d \in SUBSET [name : {DepNames[i] : i \in 1..Len(DepNames)},
                  value : CheckedValues] :
      /\ Cardinality(d) <= MaxEntries
      /\ \A a, b \in d : a.name = b.name => a = b }

\* What the scripts property holds when it is an object.
CheckedScriptMaps ==
  ScriptMaps \cup { {[name |-> "dev", value |-> Str(<<>>)]} }

\* engines.node: missing or empty, a range above Node 18, or a number.
EngineValues == { Str(<<>>), Str(<<">=", "20">>), NonString }

\* The package.json files given to the checker that JSON.parse accepts.
\* scriptsTruthy = FALSE is a scripts property that is missing, null or
\* otherwise falsy; scriptsTruthy = TRUE with no entries is {} or a value
\* that is no object.
CheckedManifests ==
  { m \in [present : {TRUE}, parsed : {TRUE}, dependencies : CheckedDepMaps,
           devDependencies : CheckedDepMaps,
           optionalDependencies : CheckedDepMaps,
           scriptsTruthy : BOOLEAN, scripts : CheckedScriptMaps,
           enginesNode : EngineValues] :
      /\ Cardinality(m.dependencies) + Cardinality(m.devDependencies)
           + Cardinality(m.optionalDependencies) <= MaxEntries
      /\ ~m.scriptsTruthy => m.scripts = {} }

\* The tree has no package.json.
MissingManifest ==
  [present |-> FALSE, parsed |-> FALSE, dependencies |-> {},
   devDependencies |-> {}, optionalDependencies |-> {},
   scriptsTruthy |-> FALSE, scripts |-> {}, enginesNode |-> Str(<<>>)]

\* The tree has a package.json that JSON.parse rejects.
MalformedManifest == [MissingManifest EXCEPT !.present = TRUE]

\* extractPackageJson returns null: no file, or JSON.parse threw.
extractPackageJsonNull(m) == ~m.present \/ ~m.parsed

\* The report checkCompatibility starts from.
BaseReport ==
  [threw |-> FALSE, canRun |-> TRUE, hasGitSshDeps |-> FALSE,
   issues |-> <<>>, warnings |-> <<>>, suggestions |-> <<>>]

\* The call ends with a TypeError and returns no report.
Thrown == [BaseReport EXCEPT !.threw = TRUE]

\* extractNodeVersion: engines.node when it is truthy.
hasNodeVersion(m) == ~m.enginesNode.isString \/ Len(m.enginesNode.text) > 0

\* parseNodeVersionRequirement calls version.match; a version that is no
\* string has no such method.
parseThrows(m) == hasNodeVersion(m) /\ ~m.enginesNode.isString

\* minMajor of the ">= N" form.
minMajor(t) ==
  IF Len(t) = 2 /\ t[1] = ">=" THEN (IF t[2] = "20" THEN 20 ELSE 16) ELSE 0

nodeWarnings(m) ==
  IF hasNodeVersion(m) /\ minMajor(m.enginesNode.text) > 18
    THEN << <<"Project requires Node.js ">> \o m.enginesNode.text
              \o <<", WebContainers run Node 18">> >>
    ELSE <<>>

\* version.startsWith is called on every entry; a version that is no string
\* has no such method.
analyzeThrows(m) ==
  \E i \in 1..Len(Sections) : \E e \in m[Sections[i]] : ~e.value.isString

\* The test analyzeDependencies applies to a version string.
IsGitSshVersion(t) ==
  \/ StartsWith(t, <<"git+ssh://">>)
  \/ StartsWith(t, <<"ssh://">>)
  \/ Includes(t, "git@")

\* The slots of the three sections, in the order they are visited.
Slots ==
  [k \in 1..(Len(Sections) * Len(DepNames)) |->
     [section |-> Sections[((k - 1) \div Len(DepNames)) + 1],
      name |-> DepNames[((k - 1) % Len(DepNames)) + 1]]]

\* gitSsh of analyzeDependencies: the names flagged, in order.
gitSsh(m) ==
  LET flagged(x) == \E e \in m[x.section] :
                      e.name = x.name /\ IsGitSshVersion(e.value.text)
      hits == SelectSeq(Slots, flagged)
  IN [k \in 1..Len(hits) |-> hits[k].name]

\* The last block of checkCompatibility: what it appends for the scripts.
scriptAdvice(m) ==
  IF ~m.scriptsTruthy
    THEN [warnings |-> << <<"No ", "scripts", " in package.json">> >>,
          suggestions |->
            << <<"Add a 'dev' or 'start' ", "script", " to run the project">> >>]
  ELSE IF ~\E i \in 1..Len(ConfigScripts) : ScriptTruthy(m.scripts, ConfigScripts[i])
    THEN [warnings |-> << <<"No dev/start ", "script", " found">> >>,
          suggestions |->
            << <<"Add a 'dev' or 'start' ", "script", " to package.json">> >>]
  ELSE [warnings |-> <<>>, suggestions |-> <<>>]

checkCompatibility(m, t) ==
  IF t # "nodejs"
    THEN [BaseReport EXCEPT
            !.canRun = checkCompatibilityType(t).canRun,
            !.issues = checkCompatibilityType(t).issues,
            !.suggestions =
              IF t = "static"
                THEN << <<"Static site will be served with Express">> >>
                ELSE << <<"Use cloud deployment for full execution">> >>]
  ELSE IF extractPackageJsonNull(m)
    THEN [BaseReport EXCEPT
            !.warnings = << <<"No package.json found - may not be a Node.js project">> >>]
  ELSE IF parseThrows(m) \/ analyzeThrows(m) THEN Thrown
  ELSE IF Len(gitSsh(m)) > 0
    THEN [BaseReport EXCEPT
            !.canRun = FALSE,
            !.hasGitSshDeps = TRUE,
            !.issues = << <<"Git+SSH dependencies not supported: ">> \o gitSsh(m) >>,
            !.warnings = nodeWarnings(m) \o scriptAdvice(m).warnings,
            !.suggestions =
              << <<"Replace git+ssh dependencies with npm packages or HTTPS URLs">> >>
                \o scriptAdvice(m).suggestions]
  ELSE [BaseReport EXCEPT
          !.warnings = nodeWarnings(m) \o scriptAdvice(m).warnings,
          !.suggestions = scriptAdvice(m).suggestions]

\* One call of checkCompatibility on the input.
CheckCompatibility ==
  /\ calls < MaxCalls
  /\ calls' = calls + 1
  /\ report' = checkCompatibility(manifest, checkedType)
  /\ UNCHANGED <<manifest, checkedType, frameworkVars, bootVars, sessionVars,
                 webcontainerInstance, runLocalVars>>

\* The inputs: a tree with a package.json is a Node.js project; without one
\* the type is any.
CompatInit ==
  /\ manifest \in CheckedManifests \cup {MissingManifest, MalformedManifest}
  /\ checkedType \in {"nodejs", "static", "rust", "other"}
  /\ manifest.present => checkedType = "nodejs"
  /\ report = BaseReport
  /\ calls = 0
  /\ FrameworkIdle
  /\ BootIdle
  /\ SessionIdle
  /\ files = {}
  /\ pkg = NoManifest
  /\ projectType = "other"
  /\ webcontainerInstance = NULL
  /\ RunIdle

CompatNext == CheckCompatibility

CompatSpec == CompatInit /\ [][CompatNext]_vars

\* ------------------------------------------------------ framework detection
\* Entries of one manifest given to the framework detectors.
MaxFrameworkDeps == 2

\* FRAMEWORK_PATTERNS of the pre-flight checker, in its order.
FRAMEWORK_PATTERNS ==
  << [name |-> "Vite", deps |-> <<"vite">>],
     [name |-> "Next.js", deps |-> <<"next">>],
     [name |-> "Create React App", deps |-> <<"react-scripts">>],
     [name |-> "Vue CLI", deps |-> <<"@vue/cli-service">>],
     [name |-> "Nuxt", deps |-> <<"nuxt", "nuxt3">>],
     [name |-> "Angular CLI", deps |-> <<"@angular/cli">>],
     [name |-> "SvelteKit", deps |-> <<"@sveltejs/kit">>],
     [name |-> "Remix", deps |-> <<"@remix-run/dev">>],
     [name |-> "Astro", deps |-> <<"astro">>],
     [name |-> "Gatsby", deps |-> <<"gatsby">>],
     [name |-> "Parcel", deps |-> <<"parcel">>],
     [name |-> "Webpack", deps |-> <<"webpack", "webpack-cli">>],
     [name |-> "Express", deps |-> <<"express">>],
     [name |-> "Fastify", deps |-> <<"fastify">>],
     [name |-> "Koa", deps |-> <<"koa">>],
     [name |-> "NestJS", deps |-> <<"@nestjs/core">>] >>

HostLong == <<"--", "--host", "0.0.0.0">>

HostShort == <<"--", "-H", "0.0.0.0">>

EnvVar(n, v) == [name |-> n, value |-> v]

\* The if-chain of detectFrameworkConfig, in its order: the dependencies an
\* entry tests, the name it returns for each, what it appends to baseArgs and
\* the env it sets.
FrameworkConfigs ==
  << [deps |-> <<"vite">>, names |-> <<"Vite">>, extra |-> HostLong, env |-> {}],
     [deps |-> <<"react-scripts">>, names |-> <<"Create React App">>,
      extra |-> <<>>,
      env |-> {EnvVar("HOST", "0.0.0.0"), EnvVar("PORT", "3000"),
               EnvVar("BROWSER", "none")}],
     [deps |-> <<"next">>, names |-> <<"Next.js">>, extra |-> HostShort,
      env |-> {EnvVar("NEXT_TELEMETRY_DISABLED", "1")}],
     [deps |-> <<"@vue/cli-service">>, names |-> <<"Vue CLI">>,
      extra |-> HostLong, env |-> {}],
     [deps |-> <<"@angular/cli", "@angular-devkit/build-angular">>,
      names |-> <<"Angular CLI", "Angular CLI">>, extra |-> HostLong, env |-> {}],
     [deps |-> <<"nuxt", "nuxt3">>, names |-> <<"Nuxt", "Nuxt">>,
      extra |-> HostLong, env |-> {EnvVar("NUXT_TELEMETRY_DISABLED", "1")}],
     [deps |-> <<"@sveltejs/kit">>, names |-> <<"SvelteKit">>,
      extra |-> HostLong, env |-> {}],
     [deps |-> <<"@remix-run/dev">>, names |-> <<"Remix">>, extra |-> <<>>,
      env |-> {}],
     [deps |-> <<"astro">>, names |-> <<"Astro">>, extra |-> HostLong, env |-> {}],
     [deps |-> <<"gatsby">>, names |-> <<"Gatsby">>, extra |-> HostShort,
      env |-> {EnvVar("GATSBY_TELEMETRY_DISABLED", "1")}],
     [deps |-> <<"parcel", "parcel-bundler">>, names |-> <<"Parcel", "Parcel">>,
      extra |-> HostLong, env |-> {}],
     [deps |-> <<"express", "fastify", "koa", "hapi">>,
      names |-> <<"Express", "Fastify", "Koa", "Hapi">>, extra |-> <<>>,
      env |-> {EnvVar("PORT", "3000"), EnvVar("HOST", "0.0.0.0")}],
     [deps |-> <<"webpack-dev-server">>, names |-> <<"Webpack">>,
      extra |-> <<>>, env |-> {EnvVar("HOST", "0.0.0.0")}] >>

\* The dependency names either detector looks for.
FrameworkDepNames ==
  UNION { {FRAMEWORK_PATTERNS[i].deps[k] : k \in 1..Len(FRAMEWORK_PATTERNS[i].deps)} :
            i \in 1..Len(FRAMEWORK_PATTERNS) }
    \cup UNION { {FrameworkConfigs[i].deps[k] : k \in 1..Len(FrameworkConfigs[i].deps)} :
                   i \in 1..Len(FrameworkConfigs) }

\* A declared version: a range, or the empty string.
FrameworkDepValues == { Str(<<"^1.0.0">>), Str(<<>>) }

\* An entry of a section; the value matters only where the configurator
\* reads it, in dependencies and devDependencies.
FrameworkEntries ==
  [section : {"dependencies", "devDependencies"}, name : FrameworkDepNames,
   value : FrameworkDepValues]
    \cup [section : {"optionalDependencies"}, name : FrameworkDepNames,
          value : {Str(<<"^1.0.0">>)}]

\* The sets of at most k entries in which no section declares a name twice.
RECURSIVE EntrySets(_)
EntrySets(k) ==
  IF k = 0 THEN {{}}
  ELSE LET smaller == EntrySets(k - 1)
       IN smaller \cup
            { s \cup {e} : s \in smaller,
                e \in FrameworkEntries }

SectionOf(es, sec) ==
  { [name |-> e.name, value |-> e.value] : e \in {x \in es : x.section = sec} }

\* The manifests with at most k dependency entries.
FrameworkManifests(k) ==
  { [parsed |-> TRUE,
     dependencies |-> SectionOf(es, "dependencies"),
     devDependencies |-> SectionOf(es, "devDependencies"),
     optionalDependencies |-> SectionOf(es, "optionalDependencies"),
     scripts |-> sc] :
      es \in { s \in EntrySets(k) :
                 \A a, b \in s : (a.section = b.section /\ a.name = b.name) => a = b },
      sc \in { {}, {[name |-> "start", value |-> Str(<<"node server.js">>)]} } }

\* allDeps of analyzeDependencies: every name of the three sections.
allDeps(p) ==
  UNION { {e.name : e \in p[Sections[i]]} : i \in 1..Len(Sections) }

\* JavaScript truthiness of a JSON value that is a string or an object.
Truthy(v) == ~v.isString \/ Len(v.text) > 0

\* deps[n] of detectFrameworkConfig is truthy: devDependencies are spread
\* over dependencies.
depsTruthy(p, n) ==
  IF \E e \in p.devDependencies : e.name = n
    THEN \E e \in p.devDependencies : e.name = n /\ Truthy(e.value)
    ELSE \E e \in p.dependencies : e.name = n /\ Truthy(e.value)

RECURSIVE FirstPattern(_, _)
FirstPattern(names, i) ==
  IF i > Len(FRAMEWORK_PATTERNS) THEN NULL
  ELSE IF \E k \in 1..Len(FRAMEWORK_PATTERNS[i].deps) :
            FRAMEWORK_PATTERNS[i].deps[k] \in names
    THEN FRAMEWORK_PATTERNS[i].name
  ELSE FirstPattern(names, i + 1)

detectFramework(names) == FirstPattern(names, 1)

\* The first dependency of entry c that is truthy, 0 if none is.
RECURSIVE FirstDep(_, _, _)
FirstDep(p, c, k) ==
  IF k > Len(c.deps) THEN 0
  ELSE IF depsTruthy(p, c.deps[k]) THEN k
  ELSE FirstDep(p, c, k + 1)

RECURSIVE FirstConfig(_, _)
FirstConfig(p, i) ==
  IF i > Len(FrameworkConfigs)
    THEN [name |-> NULL, args |-> <<"run", baseScript(p)>>, env |-> {}]
  ELSE IF FirstDep(p, FrameworkConfigs[i], 1) > 0
    THEN [name |-> FrameworkConfigs[i].names[FirstDep(p, FrameworkConfigs[i], 1)],
          args |-> <<"run", baseScript(p)>> \o FrameworkConfigs[i].extra,
          env |-> FrameworkConfigs[i].env]
  ELSE FirstConfig(p, i + 1)

detectFrameworkConfig(p) == IF ~p.parsed THEN DefaultConfig ELSE FirstConfig(p, 1)

\* report.frameworkDetected = detectFramework(pkg, allDeps).
DetectFramework ==
  /\ "detectFramework" \notin applied
  /\ fwPkg.parsed
  /\ applied' = applied \cup {"detectFramework"}
  /\ frameworkDetected' = detectFramework(allDeps(fwPkg))
  /\ UNCHANGED <<fwPkg, frameworkConfig, manifest, checkedType, report, calls,
                 bootVars, sessionVars, webcontainerInstance, runLocalVars>>

\* const frameworkConfig = detectFrameworkConfig(pkg) of startDevServer.
DetectFrameworkConfig ==
  /\ "detectFrameworkConfig" \notin applied
  /\ applied' = applied \cup {"detectFrameworkConfig"}
  /\ frameworkConfig' = detectFrameworkConfig(fwPkg)
  /\ UNCHANGED <<fwPkg, frameworkDetected, manifest, checkedType, report, calls,
                 bootVars, sessionVars, webcontainerInstance, runLocalVars>>

FrameworkInit ==
  /\ fwPkg \in FrameworkManifests(MaxFrameworkDeps) \cup {NoManifest}
  /\ frameworkDetected = NULL
  /\ frameworkConfig = DefaultConfig
  /\ applied = {}
  /\ BootIdle
  /\ manifest = NoManifest
  /\ checkedType = "other"
  /\ report = BaseReport
  /\ calls = 0
  /\ SessionIdle
  /\ files = {}
  /\ pkg = NoManifest
  /\ projectType = "other"
  /\ webcontainerInstance = NULL
  /\ RunIdle

FrameworkNext == DetectFramework \/ DetectFrameworkConfig

FrameworkSpec == FrameworkInit /\ [][FrameworkNext]_vars

\* ---------------------------------------------------------- bootWebContainer
\* Calls of bootWebContainer in one page.
MaxBootCalls == 3

\* What one attempt may end with besides a container: the 60 s timer of
\* attemptBoot, a rejection of WebContainer.boot, or a thrown value that is
\* no Error.
AttemptFailures == BootFailures \cup {NotAnError}

\* Variant: every failure is retried while attempts are left.
shouldRetry_AnyFailure(n, e) == n < 3

\* The test of the catch block of attemptBoot.
shouldRetry(n, e) == n < 3 /\ e.isError /\ "timed out" \in e.has

\* The outcome of an attempt as the log keeps it.
OutcomeOf(e) ==
  IF e.isError /\ "timed out" \in e.has THEN "timeout" ELSE "error"

Attempt(c, n, o) == [call |-> c, attempt |-> n, outcome |-> o]

\* The latest attempt ends with outcome o.
Settle(o) == [attemptLog EXCEPT ![Len(attemptLog)].outcome = o]

\* What a call of bootWebContainer awaits (0 for no boot) and what it has
\* resolved to: "pending", the instance, or "error".
Caller(b, r) == [boot |-> b, result |-> r]

\* The callers awaiting boot b settle with r.
SettleCallers(b, r) ==
  [i \in 1..Len(callers) |->
     IF callers[i].boot = b /\ callers[i].result = "pending"
       THEN Caller(b, r) ELSE callers[i]]

\* Variant: a boot in flight is not looked for.
promiseStored_Never(p) == FALSE

\* if (bootPromise)
promiseStored(p) == p # 0

\* bootWebContainer is called: the instance is returned, or the boot promise
\* of a boot in flight, or attemptBoot(1) begins and its promise is stored.
BootWebContainer ==
  /\ Len(bootCalls) < MaxBootCalls
  /\ IF webcontainerInstance # NULL
       THEN /\ bootCalls' = Append(bootCalls, "instance")
            /\ callers' = Append(callers, Caller(0, webcontainerInstance))
            /\ UNCHANGED <<bootPromise, attempt, attemptLog>>
     ELSE IF promiseStored(bootPromise)
       THEN /\ bootCalls' = Append(bootCalls, "promise")
            /\ callers' = Append(callers, Caller(bootPromise, "pending"))
            /\ UNCHANGED <<bootPromise, attempt, attemptLog>>
     ELSE /\ bootCalls' = Append(bootCalls, "boot")
          /\ callers' = Append(callers, Caller(Len(bootCalls) + 1, "pending"))
          /\ bootPromise' = Len(bootCalls) + 1
          /\ attempt' = 1
          /\ attemptLog' = Append(attemptLog, Attempt(Len(bootCalls) + 1, 1, "pending"))
  /\ UNCHANGED <<webcontainerInstance, manifest, checkedType, report, calls,
                 frameworkVars, view, containerStatus, boots, runs,
                 shellProcess, shellStarted, tornDown, staleCallbacks,
                 shells, runLocalVars>>

\* The pending attempt wins its race: the promise resolves, the instance is
\* stored and everyone awaiting the promise receives it.
AttemptResolve ==
  /\ attempt > 0
  /\ attemptLog' = Settle("ok")
  /\ attempt' = 0
  /\ webcontainerInstance' = "wc"
  /\ callers' = SettleCallers(bootPromise, "wc")
  /\ UNCHANGED <<bootPromise, bootCalls, manifest, checkedType, report, calls,
                 frameworkVars, view, containerStatus, boots, runs,
                 shellProcess, shellStarted, tornDown, staleCallbacks,
                 shells, runLocalVars>>

\* The pending attempt fails with e: attemptBoot calls itself, or throws the
\* error everyone awaiting the promise receives, and the catch block of
\* bootWebContainer clears the promise.
AttemptReject(e) ==
  /\ attempt > 0
  /\ IF shouldRetry(attempt, e)
       THEN /\ attempt' = attempt + 1
            /\ attemptLog' = Append(Settle(OutcomeOf(e)),
                                    Attempt(bootPromise, attempt + 1, "pending"))
            /\ UNCHANGED <<bootPromise, callers>>
       ELSE /\ attempt' = 0
            /\ attemptLog' = Settle(OutcomeOf(e))
            /\ callers' = SettleCallers(bootPromise, "error")
            /\ bootPromise' = 0
  /\ UNCHANGED <<webcontainerInstance, bootCalls, manifest, checkedType,
                 report, calls, frameworkVars, view, containerStatus, boots,
                 runs, shellProcess, shellStarted, tornDown, staleCallbacks,
                 shells, runLocalVars>>

BootInit ==
  /\ CompatIdle
  /\ SessionIdle
  /\ files = {}
  /\ pkg = NoManifest
  /\ projectType = "other"
  /\ webcontainerInstance = NULL
  /\ RunIdle

BootNext ==
  \/ BootWebContainer
  \/ AttemptResolve
  \/ \E e \in AttemptFailures : AttemptReject(e)

BootSpec == BootInit /\ [][BootNext]_vars

\* ----------------------------------------------------------------- session
\* The page over a session: launches from the landing view, back-navigation
\* and Restart Server, with every run of runFullWorkflow they start going on
\* concurrently.  A run here is a Node.js run with a start script; its
\* install ladder is one attempt.

\* The sandbox the k-th boot of the session resolves to.
WcName == <<"wc1", "wc2", "wc3", "wc4">>

\* The module singletons that teardownWebContainer and bootWebContainer use.
ModuleState ==
  [instance |-> webcontainerInstance, promise |-> bootPromise,
   shell |-> shellProcess]

teardownWebContainer(ms) ==
  [instance |-> NULL,
   promise |-> IF ms.instance # NULL THEN 0 ELSE ms.promise,
   shell |-> NULL]

\* A run suspended in bootWebContainer: on the boot it awaits (0 when the
\* stored instance c is returned).
NewRun(b, c) ==
  [pc |-> "boot", boot |-> b, container |-> c, latch |-> FALSE,
   timer |-> "none", installTimers |-> "none", server |-> "none",
   torn |-> FALSE]

\* teardownWebContainer was called while these runs were going on.
Torn(rs) == [k \in DOMAIN rs |-> [rs[k] EXCEPT !.torn = TRUE]]

\* webcontainerInstance.teardown() of the stored instance, if any.
TearsDown(ms) == IF ms.instance # NULL THEN {ms.instance} ELSE {}

\* runFullWorkflow up to its first await, on module state ms: booting is
\* emitted and bootWebContainer returns the stored instance, the stored
\* promise, or the promise of a boot it begins.
StartRun(ms, rs) ==
  /\ containerStatus' = "booting"
  /\ webcontainerInstance' = ms.instance
  /\ shellProcess' = ms.shell
  /\ IF ms.instance # NULL
       THEN /\ runs' = Append(rs, NewRun(0, ms.instance))
            /\ bootPromise' = ms.promise
            /\ UNCHANGED boots
       ELSE IF ms.promise # 0
         THEN /\ runs' = Append(rs, NewRun(ms.promise, NULL))
              /\ bootPromise' = ms.promise
              /\ UNCHANGED boots
         ELSE /\ boots' = Append(boots, "pending")
              /\ bootPromise' = Len(boots) + 1
              /\ runs' = Append(rs, NewRun(Len(boots) + 1, NULL))

\* LandingPage.handleSubmit once the repository is fetched.
Launch ==
  /\ view = "landing"
  /\ Len(runs) < MaxRuns
  /\ view' = "workspace"
  /\ StartRun(ModuleState, runs)
  /\ UNCHANGED <<shellStarted, tornDown, staleCallbacks, shells, compatVars,
                 runLocalVars>>

\* Workspace.handleBack.
handleBack ==
  /\ view = "workspace"
  /\ LET ms == teardownWebContainer(ModuleState) IN
       /\ webcontainerInstance' = ms.instance
       /\ bootPromise' = ms.promise
       /\ shellProcess' = ms.shell
  /\ tornDown' = tornDown \cup TearsDown(ModuleState)
  /\ runs' = Torn(runs)
  /\ containerStatus' = "idle"
  /\ shellStarted' = FALSE
  /\ view' = "landing"
  /\ UNCHANGED <<boots, staleCallbacks, shells, compatVars, runLocalVars>>

\* Preview.handleRestartServer.
handleRestartServer ==
  /\ view = "workspace"
  /\ Len(runs) < MaxRuns
  /\ tornDown' = tornDown \cup TearsDown(ModuleState)
  /\ StartRun(teardownWebContainer(ModuleState), Torn(runs))
  /\ UNCHANGED <<view, shellStarted, staleCallbacks, shells, compatVars,
                 runLocalVars>>

\* The Terminal effect on the ready status: startShell, once per visit.
StartShell ==
  /\ view = "workspace"
  /\ containerStatus = "ready"
  /\ ~shellStarted
  /\ shellStarted' = TRUE
  /\ IF webcontainerInstance # NULL /\ shellProcess = NULL
       THEN /\ shellProcess' = webcontainerInstance
            /\ shells' = [shells EXCEPT ![webcontainerInstance] = "alive"]
       ELSE UNCHANGED <<shellProcess, shells>>
  /\ UNCHANGED <<view, containerStatus, bootPromise, boots, runs, tornDown,
                 staleCallbacks, webcontainerInstance, compatVars,
                 runLocalVars>>

\* The shell spawned on sandbox s exits (the user ends it, or the sandbox
\* was torn down): shellProcess.exit.then clears the module's handles.
ShellExit(s) ==
  /\ s \in Sandboxes
  /\ shells[s] = "alive"
  /\ shells' = [shells EXCEPT ![s] = "exited"]
  /\ shellProcess' = NULL
  /\ UNCHANGED <<view, containerStatus, bootPromise, boots, runs,
                 shellStarted, tornDown, staleCallbacks,
                 webcontainerInstance, compatVars, runLocalVars>>

\* Boot b settles: the call of bootWebContainer that began it stores the
\* instance, or clears the promise.
BootSettle(b, ok) ==
  /\ b \in DOMAIN boots
  /\ boots[b] = "pending"
  /\ boots' = [boots EXCEPT ![b] = IF ok THEN "resolved" ELSE "rejected"]
  /\ IF ok THEN /\ webcontainerInstance' = WcName[b]
                /\ UNCHANGED bootPromise
           ELSE /\ bootPromise' = 0
                /\ UNCHANGED webcontainerInstance
  /\ UNCHANGED <<view, containerStatus, runs, shellProcess, shellStarted,
                 tornDown, staleCallbacks, shells, compatVars, runLocalVars>>

\* Run r calls its callbacks of the given kinds.
Deliver(r, kinds) ==
  staleCallbacks' = IF runs[r].torn THEN staleCallbacks \cup kinds
                    ELSE staleCallbacks

\* Run r reports an error and ends.
RunFails(r) ==
  /\ runs' = [runs EXCEPT ![r].pc = "done", ![r].installTimers = "none",
                          ![r].timer = IF @ = "pending" THEN "cleared" ELSE @]
  /\ containerStatus' = "error"
  /\ Deliver(r, {"error", "status"})

sessionFrame ==
  <<view, bootPromise, boots, shellProcess, shellStarted, tornDown, shells,
    webcontainerInstance, compatVars, runLocalVars>>

\* The await of bootWebContainer in run r settles.
RunBootDone(r) ==
  /\ r \in DOMAIN runs
  /\ runs[r].pc = "boot"
  /\ runs[r].boot # 0 => boots[runs[r].boot] # "pending"
  /\ IF runs[r].boot # 0 /\ boots[runs[r].boot] = "rejected"
       THEN RunFails(r)
       ELSE /\ runs' = [runs EXCEPT
                          ![r].pc = "mount",
                          ![r].container =
                             IF runs[r].boot = 0 THEN @ ELSE WcName[runs[r].boot]]
            /\ containerStatus' = "mounting"
            /\ Deliver(r, {"output", "status"})
  /\ UNCHANGED sessionFrame

\* mountFiles of run r settles; a sandbox that was torn down mounts nothing.
RunMountDone(r, ok) ==
  /\ r \in DOMAIN runs
  /\ runs[r].pc = "mount"
  /\ ok => runs[r].container \notin tornDown
  /\ IF ok
       THEN /\ runs' = [runs EXCEPT ![r].pc = "install",
                                    ![r].installTimers = "pending"]
            /\ containerStatus' = "installing"
            /\ Deliver(r, {"output", "status"})
       ELSE RunFails(r)
  /\ UNCHANGED sessionFrame

\* The 15 s no-output timer of the install of run r fires.
RunInstallHint(r) ==
  /\ r \in DOMAIN runs
  /\ runs[r].pc = "install"
  /\ runs[r].installTimers = "pending"
  /\ runs' = [runs EXCEPT ![r].installTimers = "hinted"]
  /\ Deliver(r, {"output"})
  /\ UNCHANGED <<containerStatus, sessionFrame>>

\* The 5 min timer of the install of run r fires: the attempt is rejected.
RunInstallTimeout(r) ==
  /\ r \in DOMAIN runs
  /\ runs[r].pc = "install"
  /\ RunFails(r)
  /\ UNCHANGED sessionFrame

\* The install process of run r exits.
RunInstallExit(r, code) ==
  /\ r \in DOMAIN runs
  /\ runs[r].pc = "install"
  /\ IF code = 0
       THEN /\ runs' = [runs EXCEPT ![r].pc = "spawn",
                                    ![r].installTimers = "none"]
            /\ containerStatus' = "running"
            /\ Deliver(r, {"output", "status"})
       ELSE RunFails(r)
  /\ UNCHANGED sessionFrame

\* The spawn of the dev server of run r settles.
RunSpawnDone(r, ok) ==
  /\ r \in DOMAIN runs
  /\ runs[r].pc = "spawn"
  /\ ok => runs[r].container \notin tornDown
  /\ IF ok
       THEN /\ runs' = [runs EXCEPT ![r].pc = "serving",
                                    ![r].server = "alive",
                                    ![r].timer = "pending"]
            /\ UNCHANGED <<containerStatus, staleCallbacks>>
       ELSE RunFails(r)
  /\ UNCHANGED sessionFrame

\* The sandbox of run r emits server-ready with a non-loopback URL.
RunServerReady(r) ==
  /\ r \in DOMAIN runs
  /\ runs[r].pc \in {"install", "spawn", "serving"}
  /\ runs[r].container \notin tornDown
  /\ ~runs[r].latch
  /\ runs' = [runs EXCEPT ![r].latch = TRUE,
                          ![r].timer = IF @ = "pending" THEN "cleared" ELSE @]
  /\ containerStatus' = "ready"
  /\ Deliver(r, {"output", "serverReady", "status"})
  /\ UNCHANGED sessionFrame

\* The readiness timeout of run r expires.
RunTimeoutFire(r) ==
  /\ r \in DOMAIN runs
  /\ runs[r].timer = "pending"
  /\ runs' = [runs EXCEPT ![r].timer = "fired"]
  /\ IF runs[r].latch THEN UNCHANGED staleCallbacks
                      ELSE Deliver(r, {"output"})
  /\ UNCHANGED <<containerStatus, sessionFrame>>

\* The server process of run r exits.
RunServerExit(r, code) ==
  /\ r \in DOMAIN runs
  /\ runs[r].server = "alive"
  /\ runs' = [runs EXCEPT ![r].server = "exited",
                          ![r].timer = IF @ = "pending" THEN "cleared" ELSE @]
  /\ IF code # 0 /\ ~runs[r].latch
       THEN /\ containerStatus' = "error"
            /\ Deliver(r, {"error", "status"})
       ELSE UNCHANGED <<containerStatus, staleCallbacks>>
  /\ UNCHANGED sessionFrame

SessionInit ==
  /\ SessionIdle
  /\ CompatIdle
  /\ files = {"package.json"}
  /\ pkg = NoManifest
  /\ projectType = "nodejs"
  /\ webcontainerInstance = NULL
  /\ RunIdle

SessionNext ==
  \/ Launch
  \/ handleBack
  \/ handleRestartServer
  \/ StartShell
  \/ \E s \in Sandboxes : ShellExit(s)
  \/ \E b \in 1..MaxRuns : \E ok \in BOOLEAN : BootSettle(b, ok)
  \/ \E r \in 1..MaxRuns : RunBootDone(r)
  \/ \E r \in 1..MaxRuns : \E ok \in BOOLEAN : RunMountDone(r, ok)
  \/ \E r \in 1..MaxRuns : RunInstallHint(r)
  \/ \E r \in 1..MaxRuns : RunInstallTimeout(r)
  \/ \E r \in 1..MaxRuns : \E code \in ExitCodes : RunInstallExit(r, code)
  \/ \E r \in 1..MaxRuns : \E ok \in BOOLEAN : RunSpawnDone(r, ok)
  \/ \E r \in 1..MaxRuns : RunServerReady(r)
  \/ \E r \in 1..MaxRuns : RunTimeoutFire(r)
  \/ \E r \in 1..MaxRuns : \E code \in ExitCodes : RunServerExit(r, code)

SessionSpec == SessionInit /\ [][SessionNext]_vars

\* ------------------------------------------------------------ properties
Count(log, x) == Cardinality({i \in 1..Len(log) : log[i] = x})

Last(log) == log[Len(log)]

IsPrefix(a, b) == Len(a) <= Len(b) /\ SubSeq(b, 1, Len(a)) = a

\* Loopback URLs as the specification words them.
LoopbackUrl(u) == u[1] = "http://localhost" \/ u[1] = "http://127.0.0.1"

Happened(e) == \E i \in 1..Len(phaseLog) : phaseLog[i].ev = e

SpawnCount == Cardinality({i \in 1..Len(phaseLog) : phaseLog[i].ev = "install.spawn"})

\* C1: during one run onServerReady and the ready status are each emitted at
\* most once, and once the latch has fired no later signal (server-ready
\* event, output chunk, grace timer, timeout) emits a status or a URL or
\* reopens the latch.
C1_ReadyAtMostOnce ==
  [][ /\ Count(statusLog', "ready") <= 1
      /\ Len(readyUrls') <= 1
      /\ serverReadyFired =>
           /\ serverReadyFired'
           /\ readyUrls' = readyUrls
           /\ Count(statusLog', "ready") = Count(statusLog, "ready") ]_vars

\* A matched output pattern is still waiting on its grace timer when the
\* event channel has latched: two signals, one notification.
C1_Witness ==
  /\ serverReadyFired
  /\ grace > 0
  /\ Len(readyUrls) = 1
  /\ Count(statusLog, "ready") = 1

\* C2: in a Node.js run a server-ready event with a loopback URL leaves the
\* latch, the statuses and the preview URL as they were, and an event with a
\* non-loopback URL arriving while the latch is open fires it: the URL goes
\* to onServerReady and ready is emitted.
C2_LoopbackRejectedThenLatched ==
  [][ \A u \in Urls :
        (projectType = "nodejs" /\ ServerReadyEvent(u)) =>
          IF LoopbackUrl(u)
            THEN UNCHANGED <<serverReadyFired, statusLog, readyUrls>>
            ELSE ~serverReadyFired =>
                   /\ serverReadyFired'
                   /\ readyUrls' = Append(readyUrls, u)
                   /\ statusLog' = Append(statusLog, "ready") ]_vars

\* A loopback event was rejected (its warning was printed while the latch
\* was open) and a later non-loopback event latched.
C2_Witness ==
  /\ projectType = "nodejs"
  /\ "localhost" \in hints
  /\ serverReadyFired
  /\ Len(readyUrls) = 1
  /\ ~LoopbackUrl(readyUrls[1])

\* C3: onServerReady is never invoked with a loopback URL, on the Node.js
\* path and on the static path alike.
C3_NoLoopbackPreview ==
  \A i \in 1..Len(readyUrls) : ~LoopbackUrl(readyUrls[i])

\* C4: the output-pattern channel never fires the latch by itself: every
\* step of a runnable project's run that fires the latch, calls
\* onServerReady or emits ready is a sandbox server-ready event.
C4_OnlyEventsLatch ==
  [][ ( \/ ~serverReadyFired /\ serverReadyFired'
        \/ readyUrls' # readyUrls
        \/ /\ projectType \in {"nodejs", "static"}
           /\ statusLog' = Append(statusLog, "ready") )
      => \E u \in Urls : ServerReadyEvent(u) ]_vars

CanonicalStatuses == <<"booting", "mounting", "installing", "running", "ready">>

\* C5: the statuses of a run are a prefix of booting, mounting, installing,
\* running, ready, optionally cut short by one final error that follows
\* booting, mounting, installing or running.  Stated for the runnable
\* project types, which the claim covers.
C5_StatusSequence ==
  projectType \in {"nodejs", "static"} =>
    \/ IsPrefix(statusLog, CanonicalStatuses)
    \/ /\ Len(statusLog) >= 2
       /\ Last(statusLog) = "error"
       /\ IsPrefix(SubSeq(statusLog, 1, Len(statusLog) - 1),
                   SubSeq(CanonicalStatuses, 1, 4))

\* C6: mounting starts only after boot completed, an install process is
\* spawned only after mount completed, and the server process is spawned
\* only after an install attempt of the run exited with code 0.
C6_PhaseOrder ==
  \A i \in 1..Len(phaseLog) :
    /\ phaseLog[i].ev = "mount.start" =>
         \E j \in 1..(i - 1) : phaseLog[j].ev = "boot.done"
    /\ phaseLog[i].ev = "install.spawn" =>
         \E j \in 1..(i - 1) : phaseLog[j].ev = "mount.done"
    /\ phaseLog[i].ev = "server.spawn" =>
         \E j \in 1..(i - 1) : phaseLog[j] = Ev("install.exit", "0")

\* The server was spawned in a run whose first install attempt failed.
C6_Witness ==
  /\ Happened("server.spawn")
  /\ \E j \in 1..Len(phaseLog) : phaseLog[j] = Ev("install.exit", "1")

\* The ladder as the specification lists it.
ClaimLadder ==
  << "npm ci", "npm install", "npm install --legacy-peer-deps",
     "npm install --force", "npm install --ignore-scripts --legacy-peer-deps" >>

Rung(cmd) == CHOOSE k \in 1..Len(ClaimLadder) : ClaimLadder[k] = cmd

\* C7: the install attempts are a subsequence of the ladder in its order, an
\* attempt after the first starts right after the previous one exited
\* non-zero, none starts after an exit with code 0, and there are at most
\* five.
C7_LadderOrder ==
  /\ SpawnCount <= 5
  /\ \A i \in 1..Len(phaseLog) : phaseLog[i].ev = "install.spawn" =>
       /\ \E k \in 1..Len(ClaimLadder) : ClaimLadder[k] = phaseLog[i].arg
       /\ \A j \in 1..(i - 1) :
            /\ phaseLog[j].ev = "install.spawn" =>
                 /\ Rung(phaseLog[j].arg) < Rung(phaseLog[i].arg)
                 /\ phaseLog[i - 1] = Ev("install.exit", "1")
            /\ phaseLog[j] # Ev("install.exit", "0")

\* All five rungs were tried in one run.
C7_Witness == SpawnCount = 5

FirstCmd == IF "package-lock.json" \in files THEN "npm ci" ELSE "npm install"

LadderOver == pc \in {"node.findScript", "node.spawn", "returned"}

\* C8 as stated: when no install output of a Node.js run carried a
\* peer-conflict or build-failure signature, the finished ladder made
\* exactly one attempt, the lockfile-aware one.
C8_Original ==
  ( /\ projectType = "nodejs"
    /\ Happened("install.spawn")
    /\ LadderOver
    /\ ~signatureSeen )
  => /\ SpawnCount = 1
     /\ \A i \in 1..Len(phaseLog) :
          phaseLog[i].ev = "install.spawn" => phaseLog[i].arg = FirstCmd

FirstOf(e) == CHOOSE i \in 1..Len(phaseLog) :
                /\ phaseLog[i].ev = e
                /\ \A j \in 1..(i - 1) : phaseLog[j].ev # e

\* C8 amended: the first attempt of a Node.js run is npm ci when
\* package-lock.json is present and npm install otherwise; if it exits 0 it
\* is the only attempt of the run; if it exits non-zero another attempt
\* follows at once, signature or not.
C8_FirstAttempt ==
  (projectType = "nodejs" /\ Happened("install.spawn")) =>
    /\ phaseLog[FirstOf("install.spawn")].arg = FirstCmd
    /\ Happened("install.exit") =>
         LET x == FirstOf("install.exit") IN
         IF phaseLog[x].arg = "0"
           THEN SpawnCount = 1
           ELSE /\ Len(phaseLog) > x
                /\ phaseLog[x + 1].ev = "install.spawn"

\* One lockfile-aware attempt succeeded without printing a signature and
\* the run went on to start the server.
C8_Witness ==
  /\ projectType = "nodejs"
  /\ "package-lock.json" \in files
  /\ ~signatureSeen
  /\ SpawnCount = 1
  /\ Happened("server.spawn")

\* A git+ssh dependency as the specification words it.
DeclaresGitSsh(m) ==
  /\ m.parsed
  /\ \E e \in m.dependencies \cup m.devDependencies \cup m.optionalDependencies :
       /\ e.value.isString
       /\ Len(e.value.text) > 0
       /\ \/ e.value.text[1] \in {"git+ssh://", "ssh://"}
          \/ \E k \in 1..Len(e.value.text) : e.value.text[k] = "git@"

\* C9: a run on a manifest declaring a git+ssh dependency never announces
\* installing and spawns no process, and once its mount has completed its
\* statuses are booting, mounting, error with one error message.
C9_GitSshBlocks ==
  DeclaresGitSsh(pkg) =>
    /\ Count(statusLog, "installing") = 0
    /\ ~Happened("install.spawn")
    /\ ~Happened("server.spawn")
    /\ serverProc = "none"
    /\ (pc = "returned" /\ Happened("mount.done")) =>
         /\ statusLog = <<"booting", "mounting", "error">>
         /\ errorLog = <<"This project uses git+ssh dependencies">>

\* The gate stopped a run whose offending entry is not in "dependencies".
C9_Witness ==
  /\ DeclaresGitSsh(pkg)
  /\ pkg.dependencies = {}
  /\ pc = "returned"
  /\ statusLog = <<"booting", "mounting", "error">>
  /\ Happened("mount.done")

\* C10 as stated: a run on a project type other than nodejs and static
\* never emits ready and ends in error with one message.
C10_Original ==
  projectType \notin {"nodejs", "static"} =>
    /\ Count(statusLog, "ready") = 0
    /\ pc = "returned" => (Last(statusLog) = "error" /\ Len(errorLog) = 1)

\* C10 amended: for a project type other than nodejs and static the
\* pre-flight report has canRun = FALSE with an issue naming the type, and
\* the run only boots and mounts: no installing or running status, no
\* process, no onServerReady; it ends in ready when the mount completes
\* and in error, with one message, only when boot or mount fails.
C10_BrowseOnly ==
  projectType \notin {"nodejs", "static"} =>
    /\ ~checkCompatibilityType(projectType).canRun
    /\ checkCompatibilityType(projectType).issues[1][1] = projectType
    /\ Count(statusLog, "installing") = 0
    /\ Count(statusLog, "running") = 0
    /\ ~Happened("install.spawn")
    /\ ~Happened("server.spawn")
    /\ readyUrls = <<>>
    /\ pc = "returned" =>
         IF Happened("mount.done")
           THEN statusLog = <<"booting", "mounting", "ready">> /\ errorLog = <<>>
           ELSE Last(statusLog) = "error" /\ Len(errorLog) = 1

\* A Rust project was mounted and shown for browsing.
C10_Witness ==
  /\ projectType = "rust"
  /\ pc = "returned"
  /\ statusLog = <<"booting", "mounting", "ready">>

\* The script names a start script is looked for under.
StartScriptNames == {"dev", "start", "serve", "develop", "watch"}

\* The manifest declares a start script: a non-blank string under one of
\* the names.
DeclaresStartScript(m) ==
  /\ m.parsed
  /\ \E e \in m.scripts :
       /\ e.name \in StartScriptNames
       /\ e.value.isString
       /\ e.value.text # <<>>
       /\ e.value.text # <<" ">>

\* C11: in a Node.js run whose install succeeded on a manifest without a
\* start script, running is never emitted, no server process is spawned,
\* nothing is installed again, and the run ends with the error status and
\* the message that no script was found.
C11_NoScriptIsError ==
  ( /\ projectType = "nodejs"
    /\ ~DeclaresStartScript(pkg)
    /\ \E i \in 1..Len(phaseLog) : phaseLog[i] = Ev("install.exit", "0") )
  => /\ Count(statusLog, "running") = 0
     /\ ~Happened("server.spawn")
     /\ serverProc = "none"
     /\ Last(phaseLog) = Ev("install.exit", "0")
     /\ pc \in {"node.findScript", "returned"}
     /\ pc = "returned" =>
          /\ Last(statusLog) = "error"
          /\ errorLog = <<"No dev/start script found in package.json">>

\* A manifest that parses but declares no script: the second install
\* attempt succeeded and the run stopped at the script lookup.
C11_Witness ==
  /\ projectType = "nodejs"
  /\ pkg.parsed
  /\ ~DeclaresStartScript(pkg)
  /\ SpawnCount = 2
  /\ pc = "returned"
  /\ errorLog = <<"No dev/start script found in package.json">>

\* C12: when the server process exits with a non-zero code while the latch
\* is open, one error message and the error status are emitted; when it
\* exits, with any code, after the latch fired, neither a status nor an
\* error message is emitted.
C12_ExitBeforeAndAfterLatch ==
  [][ \A c \in {"0", "1"} :
        phaseLog' = Append(phaseLog, Ev("server.exit", c)) =>
          IF serverReadyFired
            THEN UNCHANGED <<statusLog, errorLog>>
            ELSE c = "1" =>
                   /\ Len(errorLog') = Len(errorLog) + 1
                   /\ statusLog' = Append(statusLog, "error") ]_vars

\* The server ended with a non-zero code and no error was reported, so the
\* latch had fired before the exit.
C12_Witness ==
  /\ serverReadyFired
  /\ serverProc = "exited"
  /\ Last(phaseLog) = Ev("server.exit", "1")
  /\ Count(statusLog, "error") = 0
  /\ errorLog = <<>>

\* C13: once a run has emitted the error status, no later step of the run
\* emits a status.
C13_ErrorTerminal ==
  [][ Count(statusLog, "error") > 0 => statusLog' = statusLog ]_vars

\* C17: the expiry of the readiness timeout changes neither the statuses,
\* the error messages, the latch nor the preview URL; it prints its hint
\* when the latch is open and nothing when the latch has fired; and a
\* non-loopback server-ready event that arrives after the expiry, the latch
\* still open, fires the latch.
C17_TimeoutOnlyHints ==
  [][ /\ (serverReadyTimeout = "pending" /\ serverReadyTimeout' = "fired") =>
           /\ UNCHANGED <<statusLog, errorLog, serverReadyFired, readyUrls>>
           /\ hints' = IF serverReadyFired THEN hints
                       ELSE hints \cup {"taking longer"}
      /\ \A u \in Urls :
           ( /\ serverReadyTimeout = "fired"
             /\ ~serverReadyFired
             /\ ~LoopbackUrl(u)
             /\ ServerReadyEvent(u) )
           => /\ serverReadyFired'
              /\ readyUrls' = Append(readyUrls, u)
              /\ statusLog' = Append(statusLog, "ready") ]_vars

\* The timeout expired with the latch open (its hint was printed) and a
\* later non-loopback event latched.
C17_Witness ==
  /\ projectType = "nodejs"
  /\ serverReadyTimeout = "fired"
  /\ "taking longer" \in hints
  /\ serverReadyFired
  /\ Len(readyUrls) = 1
  /\ ~LoopbackUrl(readyUrls[1])
  /\ Last(statusLog) = "ready"

\* The events of phaseLog that record a thrown exception.
FailureEvents == {"boot.fail", "mount.fail", "install.abort", "spawn.fail"}

ReportedAs(x) ==
  IF x.ev = "boot.fail"
    THEN "Boot timed out. Please reload or check if your browser supports WebContainers (Chrome/Edge required)."
  ELSE IF /\ x = Ev("mount.fail", "Mounting files timed out after 60s. The repository may be too large.")
          /\ projectType \in {"nodejs", "static"}
    THEN "Mounting files timed out. Try a smaller repository or check your connection."
  ELSE IF x.arg = "" THEN "Unknown error occurred"
  ELSE x.arg

\* A run in which boot, mount, install or spawn threw has ended in the error
\* status with the message the exception is reported with; a manifest that
\* cannot be read is taken for a missing one and the run goes on to install.
FailuresReported ==
  /\ \A i \in 1..Len(phaseLog) : phaseLog[i].ev \in FailureEvents =>
       /\ pc = "returned"
       /\ Last(statusLog) = "error"
       /\ Last(errorLog) = ReportedAs(phaseLog[i])
  /\ ( /\ projectType = "nodejs"
       /\ ~pkg.parsed
       /\ Happened("mount.done")
       /\ pc # "node.preflight" )
     => /\ statusLog[3] = "installing"
        /\ Happened("install.spawn")

ClaimedFailureText ==
  [c \in {1, 2} |->
     IF c = 1
       THEN "Dependency install failed (exit code 1). Check terminal for details."
       ELSE "Dependency install failed (exit code 2). Check terminal for details."]

\* C19: while an install attempt is running no error has been emitted,
\* whatever the earlier attempts exited with; and a Node.js run whose ladder
\* is over with every attempt exited non-zero has ended in the error status
\* with one message, which reports the exit code of the last attempt, and
\* has neither emitted running nor spawned a server.
C19_ExhaustedLadder ==
  /\ pc = "node.install" =>
       /\ Count(statusLog, "error") = 0
       /\ errorLog = <<>>
  /\ ( /\ projectType = "nodejs"
       /\ LadderOver
       /\ Happened("install.exit")
       /\ ~Happened("install.abort")
       /\ \A i \in 1..Len(phaseLog) : phaseLog[i] # Ev("install.exit", "0") )
     => /\ pc = "returned"
        /\ Last(statusLog) = "error"
        /\ errorLog = <<ClaimedFailureText[lastExit]>>
        /\ Count(statusLog, "running") = 0
        /\ ~Happened("server.spawn")
        /\ serverProc = "none"

\* All five attempts failed, the last one with exit code 2.
C19_Witness ==
  /\ SpawnCount = 5
  /\ lastExit = 2
  /\ pc = "returned"
  /\ Last(statusLog) = "error"
  /\ errorLog = <<ClaimedFailureText[2]>>

\* A version string as the claim words a git+ssh dependency: it contains
\* git@, contains ssh:// or starts with git+ssh://.
ClaimedGitSsh(v) ==
  /\ v.isString
  /\ \E k \in 1..Len(v.text) : v.text[k] \in {"git@", "ssh://", "git+ssh://"}

\* C20: after a call on a Node.js manifest that declares a git+ssh
\* dependency in one of its three sections the call has returned a report
\* with canRun false, hasGitSshDeps true and an issue; and a further call on
\* the same input returns the same report.
C20_GitSshReport ==
  /\ [](( /\ calls > 0
          /\ manifest.parsed
          /\ \E i \in 1..Len(Sections) : \E e \in manifest[Sections[i]] :
               ClaimedGitSsh(e.value) )
        => /\ ~report.threw
           /\ ~report.canRun
           /\ report.hasGitSshDeps
           /\ Len(report.issues) > 0)
  /\ [][(calls > 0 /\ calls' > calls) => report' = report]_vars

\* Servers of the session that are running: alive in a sandbox that was not
\* torn down.
AliveServers ==
  {r \in 1..Len(runs) : runs[r].server = "alive" /\ runs[r].container \notin tornDown}

PendingReadyTimers == {r \in 1..Len(runs) : runs[r].timer = "pending"}

\* C14: over a session at most one dev server is alive and at most one
\* readiness timeout is pending, and every run but the latest has been torn
\* down.
C14_OneServerOneTimer ==
  /\ Cardinality(AliveServers) <= 1
  /\ Cardinality(PendingReadyTimers) <= 1
  /\ \A r \in 1..(Len(runs) - 1) : runs[r].torn

\* C15: no run delivers a status, output, error or server-ready callback
\* after teardownWebContainer was called on it.
C15_TeardownComplete == staleCallbacks = {}

\* C16: teardownWebContainer applied twice leaves the module state that one
\* application leaves, and a back-navigation, at any state, leaves no
\* sandbox instance, no boot promise, no shell handles and the status idle.
C16_TeardownIdempotent ==
  [][ /\ teardownWebContainer(teardownWebContainer(ModuleState))
           = teardownWebContainer(ModuleState)
      /\ (view = "workspace" /\ view' = "landing") =>
           /\ webcontainerInstance' = NULL
           /\ bootPromise' = 0
           /\ shellProcess' = NULL
           /\ containerStatus' = "idle" ]_vars

\* ------------------------------------------------------------ C21 .. C30
\* A text that speaks of scripts.
ScriptRelated(t) == \E k \in 1..Len(t) : t[k] \in {"script", "scripts"}

\* The manifest declares no script at all, or none under the four names.
NoStartScriptDeclared(m) ==
  \A e \in m.scripts : e.name \notin {"dev", "start", "serve", "develop"}

\* C21: after a call on a parsed Node.js manifest with zero scripts, or with
\* scripts none of which is named dev, start, serve or develop, the call has
\* returned a report with a script-related warning and a script-related
\* suggestion, and the script check left canRun true (canRun is false only
\* where a git+ssh dependency was flagged).
C21_ScriptAdvice ==
  (calls > 0 /\ checkedType = "nodejs" /\ manifest.parsed
     /\ NoStartScriptDeclared(manifest))
    => /\ ~report.threw
       /\ \E k \in 1..Len(report.warnings) : ScriptRelated(report.warnings[k])
       /\ \E k \in 1..Len(report.suggestions) : ScriptRelated(report.suggestions[k])
       /\ report.canRun \/ report.hasGitSshDeps

\* C22: every call of checkCompatibility returns a report, whatever the
\* types of the manifest's values; and on a package.json that is malformed
\* JSON the report is that of a missing manifest: one warning, no issue,
\* canRun true.
C22_NeverThrows ==
  calls > 0 =>
    /\ ~report.threw
    /\ (checkedType = "nodejs" /\ manifest.present /\ ~manifest.parsed)
         => /\ report.canRun
            /\ Len(report.warnings) = 1
            /\ report.issues = <<>>
            /\ report = checkCompatibility(MissingManifest, "nodejs")

\* The names a manifest declares in the sections the configurator reads.
DeclaredForConfig(p) ==
  {e.name : e \in p.dependencies} \cup {e.name : e \in p.devDependencies}

\* Entry i of the pre-flight table is the earliest of which names has a
\* dependency.
EarliestPattern(names, i) ==
  /\ \E k \in 1..Len(FRAMEWORK_PATTERNS[i].deps) :
       FRAMEWORK_PATTERNS[i].deps[k] \in names
  /\ \A j \in 1..(i - 1) : \A k \in 1..Len(FRAMEWORK_PATTERNS[j].deps) :
       FRAMEWORK_PATTERNS[j].deps[k] \notin names

\* Entry i of the configurator's chain is the earliest of which names has a
\* dependency.
EarliestConfig(names, i) ==
  /\ \E k \in 1..Len(FrameworkConfigs[i].deps) : FrameworkConfigs[i].deps[k] \in names
  /\ \A j \in 1..(i - 1) : \A k \in 1..Len(FrameworkConfigs[j].deps) :
       FrameworkConfigs[j].deps[k] \notin names

\* C23: both detectors return the earliest entry of their table one of whose
\* dependency names the manifest declares (dependencies and devDependencies
\* for the configurator); so a manifest declaring vite together with next or
\* express resolves to Vite in both.
C23_FirstMatchWins ==
  /\ ("detectFramework" \in applied) =>
       /\ \A i \in 1..Len(FRAMEWORK_PATTERNS) :
            EarliestPattern(allDeps(fwPkg), i)
              => frameworkDetected = FRAMEWORK_PATTERNS[i].name
       /\ ({"vite", "next"} \subseteq allDeps(fwPkg)
             \/ {"vite", "express"} \subseteq allDeps(fwPkg))
            => frameworkDetected = "Vite"
  /\ ("detectFrameworkConfig" \in applied) =>
       /\ \A i \in 1..Len(FrameworkConfigs) :
            EarliestConfig(DeclaredForConfig(fwPkg), i)
              => \E k \in 1..Len(FrameworkConfigs[i].names) :
                   frameworkConfig.name = FrameworkConfigs[i].names[k]
       /\ ({"vite", "next"} \subseteq DeclaredForConfig(fwPkg)
             \/ {"vite", "express"} \subseteq DeclaredForConfig(fwPkg))
            => frameworkConfig.name = "Vite"

\* argv carries a host flag with 0.0.0.0 after a "--" separator.
HostFlagAfterSeparator(args) ==
  \E i, j \in 1..Len(args) :
    /\ i < j
    /\ j < Len(args)
    /\ args[i] = "--"
    /\ args[j] \in {"--host", "-H"}
    /\ args[j + 1] = "0.0.0.0"

\* C24: a configuration returned for a front-end framework (a name other
\* than Express, Fastify, Koa and Hapi) binds the dev server to all
\* interfaces, by a host flag in argv or by HOST in env.
C24_BindsAllInterfaces ==
  ("detectFrameworkConfig" \in applied
     /\ frameworkConfig.name \notin {NULL, "Express", "Fastify", "Koa", "Hapi"})
    => \/ HostFlagAfterSeparator(frameworkConfig.args)
       \/ [name |-> "HOST", value |-> "0.0.0.0"] \in frameworkConfig.env

\* C25: once a Node.js run has emitted installing, exactly one report was
\* given to onCompatibilityCheck, and it was given before that status (so
\* none is given afterwards).
C25_OneReportBeforeInstall ==
  /\ [](( projectType = "nodejs"
            /\ \E i \in 1..Len(statusLog) : statusLog[i] = "installing")
          => Len(compatibilityLog) = 1)
  /\ [][(projectType = "nodejs"
           /\ \E i \in 1..Len(statusLog) : statusLog[i] = "installing")
          => compatibilityLog' = compatibilityLog]_vars

\* Attempts of the boot that call c began.
AttemptsOf(c) == {i \in 1..Len(attemptLog) : attemptLog[i].call = c}

FailedExitStep ==
  /\ pc = "node.install"
  /\ Len(phaseLog') > Len(phaseLog)
  /\ phaseLog'[Len(phaseLog) + 1] = Ev("install.exit", "1")

\* C27: when npm install (step 2) or npm install --force (step 4) exits
\* non-zero, the text then classified for the legacy-peer-deps or the
\* ignore-scripts step holds chunks of that attempt only.
C27_FreshClassifiedText ==
  [][(FailedExitStep /\ installStep \in {2, 4})
       => \A c \in installOutput : c.from = installStep]_vars

\* The message that names the attempt whose command is cmd.
ClaimedTimeoutText(cmd) ==
  CASE cmd = "npm ci" -> "npm ci timed out after 300s"
    [] cmd = "npm install" -> "npm install timed out after 300s"
    [] cmd = "npm install --legacy-peer-deps"
         -> "npm install --legacy-peer-deps timed out after 300s"
    [] cmd = "npm install --force" -> "npm install --force timed out after 300s"
    [] cmd = "npm install --ignore-scripts --legacy-peer-deps"
         -> "npm install --ignore-scripts timed out after 300s"

\* C28: once an install attempt has reached its timeout its process was
\* killed, the run has ended in the error status with the message naming
\* that attempt as its only message, and no install attempt was started
\* afterwards.
C28_TimeoutEndsRun ==
  \A i \in 1..Len(phaseLog) : phaseLog[i].ev = "install.timeout" =>
    /\ i < Len(phaseLog)
    /\ phaseLog[i + 1] = Ev("install.kill", phaseLog[i].arg)
    /\ pc = "returned"
    /\ Last(statusLog) = "error"
    /\ errorLog = <<ClaimedTimeoutText(phaseLog[i].arg)>>
    /\ \A j \in (i + 1)..Len(phaseLog) : phaseLog[j].ev # "install.spawn"
    /\ ~Happened("server.spawn")

\* The forced install, the fourth attempt of its run, timed out.
C28_Witness ==
  /\ Happened("install.timeout")
  /\ Last(errorLog) = "npm install --force timed out after 300s"
  /\ SpawnCount = 4

\* C29: while an install attempt is in flight, on the Node.js path or on
\* the static path, a timeout is pending for it, so that an install process
\* that never exits is killed and the run leaves installing.
C29_InstallBounded ==
  pc \in {"node.install", "static.install"} => timeoutTimer = "pending"

\* C30: on the Node.js path a grace timer is armed by the first matching
\* chunk only, so two are never pending together and no step arms one once
\* the hint was surfaced; and a timer that expires after the latch fired
\* surfaces no hint.
C30_GraceTimerOnce ==
  /\ [](projectType = "nodejs" => grace <= 1)
  /\ [][ /\ (projectType = "nodejs" /\ "appears ready" \in hints)
             => grace' <= grace
         /\ (serverReadyFired /\ "appears ready" \notin hints)
             => "appears ready" \notin hints' ]_vars

\* ===================================================== createBufferedOutput
\* The time-coalescing buffer between a process's output and the sink, as a
\* specification of its own: the state of the other specifications is at
\* rest and no action of it touches them.
mainVars ==
  <<webcontainerInstance, files, pkg, projectType, pc, statusLog, errorLog,
    readyUrls, compatibilityLog, hints, phaseLog, serverVars, installVars,
    compatVars, sessionVars>>

MainIdle ==
  /\ CompatIdle
  /\ SessionIdle
  /\ files = {}
  /\ pkg = NoManifest
  /\ projectType = "other"
  /\ webcontainerInstance = NULL
  /\ RunLocalsIdle

\* The chunks a process prints: texts of one character, and the empty text.
OutputChunks == {<<"a">>, <<"b">>, <<>>}

\* Variant: write arms a timeout whether or not one is pending.
timerUnset_Ignored(t) == TRUE

\* !timer
timerUnset(t) == t = 0

\* write(chunk): buffer += chunk; if (!timer) timer = setTimeout(flush, flushMs).
\* The id of a new timeout is one no earlier timeout of the buffer had.
BufferWrite(chunk) ==
  /\ Len(writeLog) < MaxWrites
  /\ writeLog' = Append(writeLog, chunk)
  /\ buffer' = buffer \o chunk
  /\ IF timerUnset(timer)
       THEN /\ timer' = Len(writeLog) + 1
            /\ timeouts' = timeouts \cup {Len(writeLog) + 1}
       ELSE UNCHANGED <<timer, timeouts>>
  /\ lastCall' = "write"
  /\ UNCHANGED <<sinkLog, mainVars, staticVars,
                 terminalVars>>

\* The body of flush, run with the timeouts in ts pending: the timeout held
\* in timer is cleared, and a buffer that is not empty is handed to the sink
\* and emptied.
FlushBody(ts) ==
  /\ timeouts' = ts \ {timer}
  /\ timer' = 0
  /\ IF buffer = <<>>
       THEN UNCHANGED <<sinkLog, buffer>>
       ELSE /\ sinkLog' = Append(sinkLog, buffer)
            /\ buffer' = <<>>

\* flush() called by the owner of the buffer.
BufferFlush ==
  /\ FlushBody(timeouts)
  /\ lastCall' = "flush"
  /\ UNCHANGED <<writeLog, mainVars, staticVars,
                 terminalVars>>

\* A pending timeout expires and runs flush.
BufferTimer(id) ==
  /\ id \in timeouts
  /\ FlushBody(timeouts \ {id})
  /\ lastCall' = "timer"
  /\ UNCHANGED <<writeLog, mainVars, staticVars,
                 terminalVars>>

BufferInit == MainIdle /\ BufferIdle /\ StaticIdle /\ TerminalIdle

BufferNext ==
  \/ \E chunk \in OutputChunks : BufferWrite(chunk)
  \/ BufferFlush
  \/ \E id \in 1..MaxWrites : BufferTimer(id)

BufferSpec == BufferInit /\ [][BufferNext]_vars

\* ========================================================= serveStaticSite
\* The set-up of the static server, up to the files it writes, as a
\* specification of its own on the tree of a static site.

\* const possibleDirs of serveStaticSite.
possibleDirs ==
  <<".", "public", "dist", "build", "static", "assets", "www", "docs">>

\* Variant: the repository root is looked at first.
possibleRoots_RootFirst ==
  <<".", "public", "dist", "build", "docs", "www", "static">>

\* const possibleRoots of findStaticRoot.
possibleRoots == <<"public", "dist", "build", "docs", "www", "static", ".">>

NamedDirs == {possibleDirs[i] : i \in 2..Len(possibleDirs)}

\* The trees of at most k named directories: which of them exist, which
\* directories (the root among them) hold an index.html, and for which the
\* spawn of the probe is rejected (at most b).
StaticTrees(k, b) ==
  UNION { { [dirs |-> d, indexed |-> i, broken |-> x] :
              i \in SUBSET (d \cup {"."}),
              x \in {y \in SUBSET (d \cup {"."}) : Cardinality(y) <= b} } :
          d \in {e \in SUBSET NamedDirs : Cardinality(e) <= k} }

\* test -d dir exits 0.
IsDir(t, d) == d = "." \/ d \in t.dirs

\* test -f dir/index.html exits 0.
HasIndex(t, d) == d \in t.indexed

\* container.spawn("test", ...) on dir throws.
Rejects(t, d) == d \in t.broken

\* The loop of serveStaticSite over possibleDirs.
Existing(t) ==
  SelectSeq(possibleDirs, LAMBDA d : ~Rejects(t, d) /\ IsDir(t, d))

RECURSIVE FirstRoot(_, _)
FirstRoot(t, i) ==
  IF i > Len(possibleRoots) THEN "."
  ELSE LET d == possibleRoots[i] IN
       IF Rejects(t, d) THEN FirstRoot(t, i + 1)
       ELSE IF d = "."
         THEN IF HasIndex(t, d) THEN "." ELSE FirstRoot(t, i + 1)
       ELSE IF IsDir(t, d) /\ HasIndex(t, d) THEN d
       ELSE FirstRoot(t, i + 1)

findStaticRoot(t) == FirstRoot(t, 1)

\* [...new Set(s)]: the first occurrence of each element, in order.
RECURSIVE Unique(_)
Unique(s) ==
  IF s = <<>> THEN <<>>
  ELSE LET r == Unique(SubSeq(s, 1, Len(s) - 1)) IN
       IF \E i \in 1..Len(r) : r[i] = s[Len(s)] THEN r
       ELSE Append(r, s[Len(s)])

\* [staticRoot, ...existingDirs.filter(d => d !== staticRoot)]
orderedDirs(root, existing) ==
  <<root>> \o SelectSeq(existing, LAMBDA d : d # root)

\* The probes of serveStaticSite have settled.
ProbeDirs ==
  /\ staticPc = "probe"
  /\ existingDirs' = Existing(tree)
  /\ staticPc' = "root"
  /\ UNCHANGED <<tree, staticRoot, uniqueDirs, serverManifest, mainVars,
                 bufferVars, terminalVars>>

\* findStaticRoot resolves.
FindStaticRoot ==
  /\ staticPc = "root"
  /\ staticRoot' = findStaticRoot(tree)
  /\ staticPc' = "write"
  /\ UNCHANGED <<tree, existingDirs, uniqueDirs, serverManifest, mainVars,
                 bufferVars, terminalVars>>

\* package.json and server.js are written.
WriteServer ==
  /\ staticPc = "write"
  /\ uniqueDirs' = Unique(orderedDirs(staticRoot, existingDirs))
  /\ serverManifest' = {[name |-> "express", value |-> "^4.18.2"]}
  /\ staticPc' = "install"
  /\ UNCHANGED <<tree, existingDirs, staticRoot, mainVars, bufferVars,
                 terminalVars>>

StaticInit ==
  /\ MainIdle
  /\ BufferIdle
  /\ TerminalIdle
  /\ tree \in StaticTrees(MaxStaticDirs, MaxBrokenProbes)
  /\ staticPc = "probe"
  /\ existingDirs = <<>>
  /\ staticRoot = NULL
  /\ uniqueDirs = <<>>
  /\ serverManifest = NULL

StaticNext == ProbeDirs \/ FindStaticRoot \/ WriteServer

StaticSpec == StaticInit /\ [][StaticNext]_vars

\* ================================================================ Terminal
\* The store's workflow log and the Terminal component that mirrors it into
\* the terminal view, as a specification of its own.  Store updates made
\* between two renders are seen by the later render as one change.

\* The texts handed to appendTerminalOutput.
LogChunks == {<<"a">>, <<"b">>}

\* String.prototype.slice(n)
Slice(s, n) == IF n >= Len(s) THEN <<>> ELSE SubSeq(s, n + 1, Len(s))

\* appendTerminalOutput(output)
appendTerminalOutput(output) ==
  /\ appends < MaxAppends
  /\ appends' = appends + 1
  /\ terminalOutput' = terminalOutput \o output
  /\ UNCHANGED <<lastOutputRef, xterm, rendered, mainVars, bufferVars,
                 staticVars>>

\* clearTerminalOutput()
clearTerminalOutput ==
  /\ terminalOutput' = <<>>
  /\ UNCHANGED <<lastOutputRef, xterm, rendered, appends, mainVars,
                 bufferVars, staticVars>>

\* Terminal renders on a changed terminalOutput and its two effects run in
\* their order: the one that writes the new content, then the one that
\* clears the view on an empty log.
Render ==
  /\ terminalOutput # rendered
  /\ rendered' = terminalOutput
  /\ LET newContent == Slice(terminalOutput, Len(lastOutputRef)) IN
       IF terminalOutput = <<>>
         THEN /\ xterm' = <<>>
              /\ lastOutputRef' = <<>>
         ELSE /\ xterm' = xterm \o newContent
              /\ lastOutputRef' = IF newContent # <<>> THEN terminalOutput
                                  ELSE lastOutputRef
  /\ UNCHANGED <<terminalOutput, appends, mainVars, bufferVars, staticVars>>

TerminalInit == MainIdle /\ BufferIdle /\ StaticIdle /\ TerminalIdle

TerminalNext ==
  \/ \E output \in LogChunks : appendTerminalOutput(output)
  \/ clearTerminalOutput
  \/ Render

TerminalSpec == TerminalInit /\ [][TerminalNext]_vars

\* ------------------------------------------------------------ C31 .. C39

\* C32: on the Node.js path the script named in the spawned
\* "npm run <script>" is the one findDevScript located, and the manifest
\* declares it with text that is not blank.
C32_SpawnsLocatedScript ==
  projectType = "nodejs" =>
    \A i \in 1..Len(phaseLog) :
      phaseLog[i].ev = "server.spawn" =>
        /\ phaseLog[i].arg = findDevScript(pkg)
        /\ ScriptUsable(pkg.scripts, phaseLog[i].arg)

\* C33: on one manifest the pre-flight detector and the dev-server
\* configurator report the same framework name, or both report none.
C33_DetectorsAgree ==
  {"detectFramework", "detectFrameworkConfig"} \subseteq applied
    => frameworkDetected = frameworkConfig.name

RECURSIVE Concat(_)
Concat(chunks) ==
  IF chunks = <<>> THEN <<>> ELSE Head(chunks) \o Concat(Tail(chunks))

\* C34: what the buffer gave to the sink, joined, is a prefix of what was
\* written to it, joined; at most one of its timeouts is pending; and right
\* after a flush or an expiry the sink has everything that was written.
C34_BufferPreservesContent ==
  /\ IsPrefix(Concat(sinkLog), Concat(writeLog))
  /\ Cardinality(timeouts) <= 1
  /\ lastCall \in {"flush", "timer"} => Concat(sinkLog) = Concat(writeLog)

\* Two writes were coalesced into one chunk by the timeout, and a later
\* write is still held back.
C34_Witness ==
  /\ lastCall = "write"
  /\ sinkLog = <<<<"a", "b">>>>
  /\ writeLog = <<<<"a">>, <<"b">>, <<"a">>>>
  /\ Cardinality(timeouts) = 1

\* The priority list of document roots.
RootPriority == <<"public", "dist", "build", "docs", "www", "static">>

\* The sandbox reports the directory as present and as holding index.html.
Servable(d) ==
  /\ ~Rejects(tree, d)
  /\ IsDir(tree, d)
  /\ HasIndex(tree, d)

\* C31: once the static server's files are written, the document root is
\* the first directory of the priority list that the sandbox reports as
\* present with an index.html, the repository root if there is none; the
\* list given to the generated server starts with the document root and
\* names no directory twice; the manifest written declares one dependency.
C31_StaticRoot ==
  staticPc = "install" =>
    /\ \A i \in 1..Len(RootPriority) :
         (Servable(RootPriority[i]) /\ \A j \in 1..(i - 1) : ~Servable(RootPriority[j]))
           => staticRoot = RootPriority[i]
    /\ (\A i \in 1..Len(RootPriority) : ~Servable(RootPriority[i]))
         => staticRoot = "."
    /\ uniqueDirs[1] = staticRoot
    /\ \A i, j \in 1..Len(uniqueDirs) : uniqueDirs[i] = uniqueDirs[j] => i = j
    /\ Cardinality(serverManifest) = 1

\* dist and the root both hold an index.html and build exists without one:
\* dist is the document root, and the server is given dist, the root, build.
C31_Witness ==
  /\ staticPc = "install"
  /\ tree = [dirs |-> {"dist", "build"}, indexed |-> {"dist", "."}, broken |-> {}]
  /\ staticRoot = "dist"
  /\ uniqueDirs = <<"dist", ".", "build">>

\* C35: once the server process of the run has exited, the status last
\* emitted is ready or error, whatever the exit code was and whether the
\* exit came before or after the readiness signals.
C35_ExitIsTerminal ==
  serverProc = "exited" => Last(statusLog) \in {"ready", "error"}

\* Boot attempts in flight.
InFlight == {i \in 1..Len(attemptLog) : attemptLog[i].outcome = "pending"}

Awaiting == {i \in 1..Len(callers) : callers[i].result = "pending"}

\* C36: at most one boot attempt is in flight; the callers that resolved
\* all hold the stored instance; the callers awaiting a boot settle in one
\* step, all with the instance or all with the failure; and a call made
\* while an instance is stored returns it and begins no attempt.
C36_OneBootShared ==
  /\ [](/\ Cardinality(InFlight) <= 1
        /\ \A i \in 1..Len(callers) :
             callers[i].result \notin {"pending", "error"}
               => callers[i].result = webcontainerInstance)
  /\ [][ /\ (\E i \in Awaiting : callers'[i].result # "pending")
             => \/ \A i \in Awaiting : callers'[i].result = "error"
                \/ \A i \in Awaiting : callers'[i].result = webcontainerInstance'
         /\ (webcontainerInstance # NULL /\ Len(bootCalls') > Len(bootCalls))
             => /\ Last(callers').result = webcontainerInstance
                /\ attemptLog' = attemptLog
                /\ bootPromise' = bootPromise ]_vars

\* Two calls shared a boot that succeeded on its second attempt, and a
\* third call, made afterwards, was given the stored instance.
C36_Witness ==
  /\ Len(callers) = 3
  /\ callers[1] = Caller(1, "wc")
  /\ callers[2] = Caller(1, "wc")
  /\ callers[3] = Caller(0, "wc")
  /\ Len(attemptLog) = 2

\* The sandbox that boot b of the session resolves to.
SandboxOf(b) == WcName[b]

\* C37: a boot that was in flight when teardownWebContainer was called never
\* provides the live singleton and its promise is not given to a later
\* run, and the run that awaited it goes no further than the boot.  In
\* terms of the runs: the stored instance was obtained by a run that no
\* teardown has overtaken; such a run shares its boot with no run that a
\* teardown has overtaken; and a run that a teardown has overtaken is past
\* its boot only on a sandbox whose teardown() was called.
C37_TornBootNeverLive ==
  /\ webcontainerInstance # NULL =>
       \E r \in 1..Len(runs) :
         /\ ~runs[r].torn
         /\ \/ runs[r].container = webcontainerInstance
            \/ runs[r].boot # 0 /\ SandboxOf(runs[r].boot) = webcontainerInstance
  /\ \A r, q \in 1..Len(runs) :
       (~runs[r].torn /\ runs[q].torn /\ runs[r].boot # 0)
         => runs[r].boot # runs[q].boot
  /\ \A r \in 1..Len(runs) :
       (runs[r].torn /\ runs[r].boot # 0
          /\ runs[r].pc \in {"mount", "install", "spawn", "serving"})
         => SandboxOf(runs[r].boot) \in tornDown

\* C38: whenever the Terminal has rendered the current log, the text the
\* terminal view was given since its last clear is that log.
C38_TerminalMirrorsLog ==
  rendered = terminalOutput => xterm = terminalOutput

\* C39: once the Terminal's effect has run on a ready status, a shell was
\* started on the sandbox that is the singleton then, also when the status
\* came back to ready after a restart; and the exit of the shell of a
\* torn-down sandbox leaves the handles of another sandbox's shell in place.
C39_ShellOnEveryReady ==
  /\ [](( /\ view = "workspace"
          /\ containerStatus = "ready"
          /\ shellStarted
          /\ webcontainerInstance # NULL )
         => shells[webcontainerInstance] # "none")
  /\ [][ \A s \in Sandboxes :
           ( /\ shells[s] = "alive"
             /\ shells'[s] = "exited"
             /\ s \in tornDown
             /\ shellProcess \notin {NULL, s} )
             => shellProcess' = shellProcess ]_vars

====
